---- MODULE Spec2Model ----
(***************************************************************************)
(* Scout Analytics data pipeline: the PostgreSQL migrations                *)
(*   002_create_stored_procedures.sql   (refresh, detection, purge, cron)  *)
(*   003_enhanced_security_rls.sql      (RLS policies, grants, views)      *)
(*   004_philippine_sample_data.sql     (totals update, market views)      *)
(*   005_monitoring_analytics_views.sql (brand views, refresh_all)         *)
(* as a state machine.  Tables are sets of rows, a procedure call is one   *)
(* transaction, time is counted in hours (CURRENT_DATE = now \div 24).     *)
(***************************************************************************)
EXTENDS Integers, Sequences, FiniteSets, TLC

VARIABLES
    now,                 \* NOW(), in hours
    sales_interactions,  \* fact table: transactions
    transaction_items,   \* fact table: line items
    unit_price,          \* products.unit_price, by product id
    user_store_access,   \* grant table
    audit_log,           \* audit_log rows, in insertion order
    last_call,           \* the latest call that returned, or the failed refresh
    fn_owner,            \* owner of the SECURITY DEFINER functions
    anomalies,           \* anomalies table
    mv,                  \* committed contents of each materialized view
    tx,                  \* per session: the open refresh transaction
    seen                 \* what the dashboard reader read last

vars == <<now, sales_interactions, transaction_items, unit_price,
          user_store_access, audit_log, last_call, fn_owner, anomalies, mv, tx, seen>>

----------------------------------------------------------------------------
(* Bounds of the model *)

\* instants the clock may advance through
MaxTicks == 2
\* grant/revoke calls that return
MaxCalls == 2
\* rows transaction_items may hold
MaxItems == 3
\* refresh runs that commit
MaxRefreshes == 1
\* detection runs
MaxRuns == 2
\* updates of a product's price
MaxPriceChanges == 2

----------------------------------------------------------------------------
(* Time *)

\* the first instant: day 200, 00:00
StartNow == 200 * 24

CURRENT_DATE(t) == t \div 24
HourOf(t) == t % 24

\* the hours of a day at which the model looks at the system: the
\* cleanup-expired-access cron hour, the first business hour, the first hour
\* after business hours
CleanupHour == 1
BusinessOpen == 8
BusinessClose == 20
Instants == {CleanupHour, BusinessOpen, BusinessClose + 1}

NextInstant(t) ==
    CHOOSE u \in (t + 1)..(t + 24) :
        /\ HourOf(u) \in Instants
        /\ \A w \in (t + 1)..(u - 1) : HourOf(w) \notin Instants

RECURSIVE InstantAfter(_, _)
InstantAfter(t, n) == IF n = 0 THEN t ELSE InstantAfter(NextInstant(t), n - 1)
\* the last instant of the model
EndNow == InstantAfter(StartNow, MaxTicks)

Tick ==
    /\ now < EndNow
    /\ now' = NextInstant(now)
    /\ UNCHANGED <<sales_interactions, transaction_items, unit_price,
                   user_store_access, audit_log, last_call, fn_owner, anomalies, mv, tx, seen>>

----------------------------------------------------------------------------
(* Roles, users, stores *)

Roles == {"db_admin", "dashboard_user", "data_analyst", "store_manager"}
Users == {"u1", "u2"}
Stores == {1, 2}
AccessLevels == {"read", "admin"}

\* expires_at = NULL
NoExpiry == -1
ExpiryPast == StartNow - 1
Expiries == {NoExpiry, ExpiryPast}

AuditRow(t, a, at) == [table_name |-> t, action |-> a, timestamp |-> at]


----------------------------------------------------------------------------
(* user_store_access: grant_store_access, revoke_store_access, cleanup *)

\* the role that ran the migrations owns the functions: the deployment guide
\* connects as the server's admin login; db_admin is the role the checks name
Owners == {"db_admin", "scoutadmin"}

\* current_setting('app.user_id') without missing_ok raises when it is unset
Unset == "unset"
AppUserIds == Users \cup {Unset}

AccessRow(u, s, lvl, by, at, exp, act) ==
    [user_id |-> u, store_id |-> s, access_level |-> lvl, granted_by |-> by,
     granted_at |-> at, expires_at |-> exp, is_active |-> act]

\* IF NOT EXISTS (... access_level = 'admin' AND is_active = true)
\*    AND current_user != 'db_admin' THEN RAISE EXCEPTION
\* in a SECURITY DEFINER function current_user is the function's owner
InsufficientPrivileges(usa, owner, uid, p_store_id) ==
    /\ ~ \E r \in usa : /\ r.user_id = uid
                        /\ r.store_id = p_store_id
                        /\ r.access_level = "admin"
                        /\ r.is_active = TRUE
    /\ owner # "db_admin"

\* the insert without its ON CONFLICT clause (and no unique constraint to stop it)
UpsertAccess_NoConflictClause(usa, uid, p_user_id, p_store_id, p_access_level, p_expires_at, at) ==
    usa \cup {AccessRow(p_user_id, p_store_id, p_access_level, uid, at, p_expires_at, TRUE)}

\* INSERT ... ON CONFLICT (user_id, store_id) DO UPDATE SET ...
UpsertAccess(usa, uid, p_user_id, p_store_id, p_access_level, p_expires_at, at) ==
    LET conflict == {r \in usa : r.user_id = p_user_id /\ r.store_id = p_store_id}
    IN  (usa \ conflict) \cup
        {AccessRow(p_user_id, p_store_id, p_access_level, uid, at, p_expires_at, TRUE)}

\* UPDATE user_store_access SET is_active = false WHERE user_id = .. AND store_id = ..
DeactivateAccess(usa, p_user_id, p_store_id) ==
    {IF r.user_id = p_user_id /\ r.store_id = p_store_id
        THEN [r EXCEPT !.is_active = FALSE] ELSE r : r \in usa}

\* the latest call that returned true
Call(op, u, s) == [op |-> op, user_id |-> u, store_id |-> s]
NoCall == Call("none", "u1", 1)

\* a call that raises (app.user_id unset, insufficient privileges) is rolled
\* back: no table changes
grant_store_access(uid, p_user_id, p_store_id, p_access_level, p_expires_at) ==
    /\ Len(audit_log) < MaxCalls
    /\ uid # Unset
    /\ ~ InsufficientPrivileges(user_store_access, fn_owner, uid, p_store_id)
    /\ user_store_access' =
           UpsertAccess(user_store_access, uid, p_user_id, p_store_id,
                        p_access_level, p_expires_at, now)
    /\ audit_log' = Append(audit_log, AuditRow("user_store_access", "GRANT_ACCESS", now))
    /\ last_call' = Call("grant_store_access", p_user_id, p_store_id)
    /\ UNCHANGED <<now, sales_interactions, transaction_items, unit_price, fn_owner,
                   anomalies, mv, tx, seen>>

revoke_store_access(uid, p_user_id, p_store_id) ==
    /\ Len(audit_log) < MaxCalls
    /\ uid # Unset
    /\ ~ InsufficientPrivileges(user_store_access, fn_owner, uid, p_store_id)
    /\ user_store_access' = DeactivateAccess(user_store_access, p_user_id, p_store_id)
    /\ audit_log' = Append(audit_log, AuditRow("user_store_access", "REVOKE_ACCESS", now))
    /\ last_call' = Call("revoke_store_access", p_user_id, p_store_id)
    /\ UNCHANGED <<now, sales_interactions, transaction_items, unit_price, fn_owner,
                   anomalies, mv, tx, seen>>

\* cron 'cleanup-expired-access', '0 1 * * *':
\* UPDATE user_store_access SET is_active = false WHERE expires_at < NOW() AND is_active = true
ExpireAccess(usa, at) ==
    {IF r.expires_at # NoExpiry /\ r.expires_at < at /\ r.is_active = TRUE
        THEN [r EXCEPT !.is_active = FALSE] ELSE r : r \in usa}

cleanup_expired_access ==
    /\ HourOf(now) = CleanupHour
    /\ user_store_access' = ExpireAccess(user_store_access, now)
    /\ UNCHANGED <<now, sales_interactions, transaction_items, unit_price, audit_log,
                   last_call, fn_owner, anomalies, mv, tx, seen>>


----------------------------------------------------------------------------
(* Row level security: the SELECT policies of 003.  Every policy is       *)
(* created without AS RESTRICTIVE, so the policies that apply to a role    *)
(* are permissive and a row is visible when any one of them passes.        *)

Txn(id, store, at, amount, cust, infl, subst) ==
    [interaction_id |-> id, store_id |-> store, transaction_date |-> at,
     total_amount |-> amount, customer_id |-> cust,
     is_attendant_influenced |-> infl, substitution_occurred |-> subst]

\* transaction_date >= NOW() - INTERVAL 'n days'
WithinDays_SinceNow(row, n, t) == row.transaction_date >= t - n * 24
\* transaction_date >= CURRENT_DATE - INTERVAL 'n days'
WithinDays(row, n, t) == row.transaction_date >= (CURRENT_DATE(t) - n) * 24

\* SELECT store_id FROM user_store_access WHERE user_id = current_setting('app.user_id')
GrantedStores(usa, uid) == {r.store_id : r \in {x \in usa : x.user_id = uid}}

sales_interactions_analyst_read(row, t) == WithinDays(row, 90, t)

sales_interactions_store_manager(usa, uid, row, t) ==
    /\ row.store_id \in GrantedStores(usa, uid)
    /\ WithinDays(row, 30, t)

\* EXTRACT(HOUR FROM CURRENT_TIME) BETWEEN 8 AND 20 OR current_user = 'db_admin'
sales_interactions_business_hours(role, t) ==
    \/ (HourOf(t) >= BusinessOpen /\ HourOf(t) <= BusinessClose)
    \/ role = "db_admin"

\* the policies of sales_interactions that name the role, OR-ed
CanSelectSale(role, uid, usa, row, t) ==
    \/ role = "db_admin"
    \/ role = "dashboard_user"
    \/ role = "data_analyst" /\ sales_interactions_analyst_read(row, t)
    \/ role = "store_manager" /\ sales_interactions_store_manager(usa, uid, row, t)
    \/ role \in {"data_analyst", "store_manager"} /\ sales_interactions_business_hours(role, t)

\* stores: stores_admin_full_access, stores_read_access, stores_manager_access
CanSelectStore(role, uid, usa, store) ==
    \/ role \in {"db_admin", "dashboard_user", "data_analyst"}
    \/ role = "store_manager" /\ store \in GrantedStores(usa, uid)

\* device_master: device_master_admin_access, device_master_store_access
CanSelectDevice(role, uid, usa, store) ==
    \/ role = "db_admin"
    \/ role = "store_manager" /\ store \in GrantedStores(usa, uid)

----------------------------------------------------------------------------
(* Reference data and the view queries.  Amounts are whole currency units, *)
(* an AVG or an unrounded ratio is kept as the pair <<numerator,           *)
(* denominator>>, a ROUND(x, 2) as the integer number of hundredths.       *)

store_region == [s \in Stores |-> IF s = 1 THEN "CALABARZON" ELSE "Davao Region"]
mega_region(region) == IF region = "CALABARZON" THEN "Luzon" ELSE "Mindanao"

Products == {1, 2, 3, 4, 5}
product_brand ==
    [p \in Products |-> CASE p = 1 -> "Alaska" [] p = 2 -> "Bear Brand" [] p = 3 -> "Oishi"
                           [] p = 4 -> "Jack n Jill" [] OTHER -> "Richeese"]
brand_category(b) == IF b \in {"Oishi", "Jack n Jill", "Richeese"} THEN "Snacks" ELSE "Dairy"
product_category(p) == brand_category(product_brand[p])
TbwaBrands == {"Alaska", "Oishi", "Peerless", "Del Monte", "Winston", "Camel", "Mevius", "More"}

Item(id, txn, product, qty) ==
    [item_id |-> id, interaction_id |-> txn, product_id |-> product, quantity |-> qty]

\* SUM over a set of <<row key, value>> pairs
RECURSIVE SetSum(_)
SetSum(S) == IF S = {} THEN 0
             ELSE LET x == CHOOSE y \in S : TRUE IN x[2] + SetSum(S \ {x})

\* a NULL customer_id; a NULL numeric column
NULL == "NULL"
NULL_NUMERIC == -1
\* x / NULLIF(y, 0), unrounded; <<0, 0>> is NULL
Ratio(x, y) == IF y = 0 THEN <<0, 0>> ELSE <<x, y>>
\* ROUND(x / y * 100, 2) for x >= 0, y > 0, in hundredths of a percent (half away from zero)
RoundPercent(x, y) == (2 * x * 10000 + y) \div (2 * y)

DateOf(row) == row.transaction_date \div 24
DowOf(row) == (row.transaction_date \div 24) % 7
TxnHour(row) == row.transaction_date % 24

\* the rows without the WHERE clause on transaction_date
InWindow_Unbounded(si, n, t) == si
InWindow(si, n, t) == {r \in si : WithinDays(r, n, t)}
CountIf(rows, P(_)) == Cardinality({r \in rows : P(r)})
Influenced(r) == r.is_attendant_influenced
Substituted(r) == r.substitution_occurred
Revenue(rows) == SetSum({<<r.interaction_id, r.total_amount>> : r \in rows})

\* 003 lines 554-570: the rows of the SELECT grouped by its columns that are
\* not aggregates (date, store with region and name, day of week, hour).
\* The GROUP BY list as written, daily_sales_group_by, is rejected when the
\* view is created (CreateRaises); this operator is what the refresh
\* procedures compute for a daily_sales that exists.
daily_sales(si, t) ==
    LET win == InWindow(si, 90, t)
        Key(r) == <<DateOf(r), r.store_id, DowOf(r), TxnHour(r)>>
    IN  {LET g == {r \in win : Key(r) = k}
         IN  [sale_date |-> k[1], store_id |-> k[2], region |-> store_region[k[2]],
              transaction_count |-> Cardinality(g),
              daily_revenue |-> Revenue(g),
              avg_transaction_value |-> <<Revenue(g), Cardinality(g)>>,
              influenced_transactions |-> CountIf(g, Influenced),
              substitution_transactions |-> CountIf(g, Substituted),
              day_of_week |-> k[3], peak_hour |-> k[4]]
         : k \in {Key(r) : r \in win}}

\* transaction_items JOIN products JOIN brands JOIN sales_interactions in the window
ItemsInWindow(si, ti, n, t) ==
    {i \in ti : \E r \in InWindow(si, n, t) : r.interaction_id = i.interaction_id}
ItemRevenue(items, price) ==
    SetSum({<<i.item_id, i.quantity * price[i.product_id]>> : i \in items})
ItemUnits(items) == SetSum({<<i.item_id, i.quantity>> : i \in items})
ItemTxns(items) == Cardinality({i.interaction_id : i \in items})

\* 003 lines 579-605
product_performance(si, ti, price, t) ==
    LET win == ItemsInWindow(si, ti, 90, t)
        Of(p) == {i \in win : i.product_id = p}
        sold == {i.product_id : i \in win}
    IN  {[product_id |-> p, brand_name |-> product_brand[p], category |-> product_category(p),
          total_units_sold |-> ItemUnits(Of(p)),
          total_revenue |-> ItemRevenue(Of(p), price),
          transaction_count |-> ItemTxns(Of(p)),
          market_share_percent |-> Ratio(ItemRevenue(Of(p), price) * 100, ItemRevenue(win, price)),
          category_rank |-> 1 + Cardinality({q \in sold :
                                  /\ product_category(q) = product_category(p)
                                  /\ ItemUnits(Of(q)) > ItemUnits(Of(p))}),
          performance_tier |-> IF ItemUnits(Of(p)) > 1000 THEN "High Performer"
                               ELSE IF ItemUnits(Of(p)) > 500 THEN "Medium Performer"
                               ELSE "Low Performer"]
         : p \in sold}

\* the rows of sales_interactions JOIN stores LEFT JOIN transaction_items ...:
\* one per line item, one (item = NULL) for a transaction without items
NoItem == Item(0, 0, 0, 0)
JoinedLeft(rows, ti) ==
    {<<r, i>> : r \in rows, i \in ti \cup {NoItem}} \ 
    {<<r, i>> \in rows \X (ti \cup {NoItem}) :
        \/ i # NoItem /\ i.interaction_id # r.interaction_id
        \/ i = NoItem /\ \E j \in ti : j.interaction_id = r.interaction_id}
JoinKey(j) == <<j[1].interaction_id, j[2].item_id>>
BrandRevenue(joined, price, brands) ==
    SetSum({<<JoinKey(j), IF j[2] # NoItem /\ product_brand[j[2].product_id] \in brands
                           THEN j[2].quantity * price[j[2].product_id] ELSE 0>> : j \in joined})

\* 003 lines 666-707
regional_performance(si, ti, price, t) ==
    LET win == InWindow(si, 90, t)
        regions == {store_region[r.store_id] : r \in win}
    IN  {LET rows == {r \in win : store_region[r.store_id] = reg}
             j == JoinedLeft(rows, ti)
             total_transactions == Cardinality({x[1].interaction_id : x \in j})
             total_revenue == SetSum({<<JoinKey(x), x[1].total_amount>> : x \in j})
             influenced_sales == Cardinality({x \in j : x[1].is_attendant_influenced})
             substitution_events == Cardinality({x \in j : x[1].substitution_occurred})
             tbwa == BrandRevenue(j, price, {"Alaska", "Oishi", "Peerless", "Del Monte"})
         IN  [region |-> reg,
              store_count |-> Cardinality({x[1].store_id : x \in j}),
              total_transactions |-> total_transactions,
              total_revenue |-> total_revenue,
              unique_customers |-> Cardinality({x[1].customer_id : x \in j} \ {NULL}),
              influence_rate_percent |-> RoundPercent(influenced_sales, total_transactions),
              substitution_rate_percent |-> RoundPercent(substitution_events, total_transactions),
              alaska_revenue |-> BrandRevenue(j, price, {"Alaska"}),
              oishi_revenue |-> BrandRevenue(j, price, {"Oishi"}),
              peerless_revenue |-> BrandRevenue(j, price, {"Peerless"}),
              del_monte_revenue |-> BrandRevenue(j, price, {"Del Monte"}),
              tbwa_total_revenue |-> tbwa,
              tbwa_market_share_percent |->
                  IF total_revenue = 0 THEN NULL_NUMERIC ELSE RoundPercent(tbwa, total_revenue),
              revenue_rank |-> 1 + Cardinality({other \in regions :
                  SetSum({<<JoinKey(x), x[1].total_amount>> :
                             x \in JoinedLeft({r \in win : store_region[r.store_id] = other}, ti)})
                      > total_revenue})]
         : reg \in regions}

\* 004 lines 356-385: inner joins, one row per line item
philippine_market_analysis(si, ti, price, t) ==
    LET win == InWindow(si, 90, t)
        Joined(reg) == {x \in JoinedLeft({r \in win : store_region[r.store_id] = reg}, ti) :
                           x[2] # NoItem}
        regions == {reg \in {store_region[r.store_id] : r \in win} : Joined(reg) # {}}
    IN  {LET j == Joined(reg)
             all == BrandRevenue(j, price, {product_brand[p] : p \in Products})
             tbwa == BrandRevenue(j, price, TbwaBrands)
         IN  [mega_region |-> mega_region(reg), region |-> reg,
              total_transactions |-> Cardinality({x[1].interaction_id : x \in j}),
              total_revenue |-> SetSum({<<JoinKey(x), x[1].total_amount>> : x \in j}),
              active_stores |-> Cardinality({x[1].store_id : x \in j}),
              tbwa_revenue |-> tbwa,
              competitor_revenue |-> all - tbwa,
              tbwa_market_share_percent |-> IF all = 0 THEN NULL_NUMERIC ELSE RoundPercent(tbwa, all)]
         : reg \in regions}

\* per (brand, category) aggregates of the line items in a window
BrandItems(items, b) == {i \in items : product_brand[i.product_id] = b}

\* 004 lines 388-406
tbwa_brand_performance(si, ti, price, t) ==
    LET win == ItemsInWindow(si, ti, 90, t)
        brands == {product_brand[i.product_id] : i \in win} \cap TbwaBrands
    IN  {[brand_name |-> b, category |-> brand_category(b),
          transaction_count |-> ItemTxns(BrandItems(win, b)),
          total_units_sold |-> ItemUnits(BrandItems(win, b)),
          total_revenue |-> ItemRevenue(BrandItems(win, b), price),
          revenue_rank |-> 1 + Cardinality({c \in brands :
              ItemRevenue(BrandItems(win, c), price) > ItemRevenue(BrandItems(win, b), price)})]
         : b \in brands}

\* the label with exclusive bounds
market_position_Exclusive(revenue, total) ==
    IF revenue * 100 > 25 * total THEN "Market Leader"
    ELSE IF revenue * 100 > 15 * total THEN "Strong Player"
    ELSE IF revenue * 100 > 5 * total THEN "Challenger"
    ELSE "Niche Player"

\* CASE WHEN share >= 0.25 ... END, on the unrounded ratio revenue / total
market_position(revenue, total) ==
    IF revenue * 100 >= 25 * total THEN "Market Leader"
    ELSE IF revenue * 100 >= 15 * total THEN "Strong Player"
    ELSE IF revenue * 100 >= 5 * total THEN "Challenger"
    ELSE "Niche Player"

\* 005 lines 159-213.  brand_metrics and category_totals:
BrandsSold(si, ti, t) == {product_brand[i.product_id] : i \in ItemsInWindow(si, ti, 30, t)}
BrandRev(si, ti, price, t, b) == ItemRevenue(BrandItems(ItemsInWindow(si, ti, 30, t), b), price)
BrandUnits(si, ti, t, b) == ItemUnits(BrandItems(ItemsInWindow(si, ti, 30, t), b))
\* the total without GROUP BY brand_category
category_total_revenue_AllBrands(si, ti, price, t, c) ==
    SetSum({<<b, BrandRev(si, ti, price, t, b)>> : b \in BrandsSold(si, ti, t)})
category_total_revenue(si, ti, price, t, c) ==
    SetSum({<<b, BrandRev(si, ti, price, t, b)>> :
               b \in {x \in BrandsSold(si, ti, t) : brand_category(x) = c}})
category_total_units(si, ti, t, c) ==
    SetSum({<<b, BrandUnits(si, ti, t, b)>> :
               b \in {x \in BrandsSold(si, ti, t) : brand_category(x) = c}})

\* bm.revenue / ct.category_total_revenue and bm.units_sold / ct.category_total_units
\* have no NULLIF: a zero category total raises division_by_zero
division_by_zero(si, ti, price, t) ==
    \E b \in BrandsSold(si, ti, t) :
        \/ category_total_revenue(si, ti, price, t, brand_category(b)) = 0
        \/ category_total_units(si, ti, t, brand_category(b)) = 0

brand_competition_dashboard(si, ti, price, t) ==
    LET brands == BrandsSold(si, ti, t)
        Rev(b) == BrandRev(si, ti, price, t, b)
        CatRev(b) == category_total_revenue(si, ti, price, t, brand_category(b))
        CatUnits(b) == category_total_units(si, ti, t, brand_category(b))
    IN  {[brand_name |-> b, brand_category |-> brand_category(b),
          brand_type |-> IF b \in TbwaBrands THEN "TBWA Client" ELSE "Competitor",
          transactions |-> ItemTxns(BrandItems(ItemsInWindow(si, ti, 30, t), b)),
          units_sold |-> BrandUnits(si, ti, t, b),
          revenue |-> Rev(b),
          category_market_share_percent |-> RoundPercent(Rev(b), CatRev(b)),
          category_volume_share_percent |-> RoundPercent(BrandUnits(si, ti, t, b), CatUnits(b)),
          revenue_rank_in_category |-> 1 + Cardinality({c \in brands :
              brand_category(c) = brand_category(b) /\ Rev(c) > Rev(b)}),
          market_position |-> market_position(Rev(b), CatRev(b))]
         : b \in brands}

\* 005 lines 378-403
category_performance_analytics(si, ti, price, t) ==
    LET win == ItemsInWindow(si, ti, 30, t)
        Of(c) == {i \in win : product_category(i.product_id) = c}
        Tbwa(c) == {i \in Of(c) : product_brand[i.product_id] \in TbwaBrands}
    IN  {[category |-> c,
          transactions |-> ItemTxns(Of(c)),
          total_units_sold |-> ItemUnits(Of(c)),
          total_revenue |-> ItemRevenue(Of(c), price),
          product_count |-> Cardinality({i.product_id : i \in Of(c)}),
          brand_count |-> Cardinality({product_brand[i.product_id] : i \in Of(c)}),
          tbwa_revenue |-> ItemRevenue(Tbwa(c), price),
          competitor_revenue |-> ItemRevenue(Of(c) \ Tbwa(c), price)]
         : c \in {product_category(i.product_id) : i \in win}}

----------------------------------------------------------------------------
(* Ingestion and price maintenance.                                        *)

\* log_data_changes fires once for each affected row
RECURSIVE AuditRows(_, _, _, _)
AuditRows(t, a, at, n) ==
    IF n = 0 THEN <<>> ELSE <<AuditRow(t, a, at)>> \o AuditRows(t, a, at, n - 1)

\* COALESCE((SELECT SUM(p.unit_price * ti.quantity) ...), 0)
LineItemTotal(ti, price, id) == ItemRevenue({i \in ti : i.interaction_id = id}, price)
UpdateTotals(si, ti, price) ==
    {[r EXCEPT !.total_amount = LineItemTotal(ti, price, r.interaction_id)] : r \in si}

Quantities == {1, 2}
Customers == {"c1", NULL}

\* the load of 004 for one more transaction with one line item: the row is
\* inserted with total_amount 0, its item is inserted, then the totals of
\* all transactions are updated
load_sales(store, cust, subst, product, qty) ==
    LET id == Cardinality(sales_interactions) + 1
        inserted == sales_interactions \cup {Txn(id, store, now, 0, cust, FALSE, subst)}
        items == transaction_items \cup
                     {Item(Cardinality(transaction_items) + 1, id, product, qty)}
    IN  /\ Cardinality(transaction_items) < MaxItems
        /\ transaction_items' = items
        /\ sales_interactions' = UpdateTotals(inserted, items, unit_price)
        /\ audit_log' = audit_log \o AuditRows("sales_interactions", "INSERT", now, 1)
                                  \o AuditRows("sales_interactions", "UPDATE", now,
                                               Cardinality(inserted))
        /\ last_call' = Call("load_sales", cust, store)
        /\ UNCHANGED <<now, unit_price, user_store_access, fn_owner, anomalies, mv, tx, seen>>

\* a price may be set to 0: products_update_restricted checks name, brand and category only
Prices == {0, 10, 30}
\* UPDATE products SET unit_price = new_price WHERE id = product
PriceChanges(log) ==
    {i \in DOMAIN log : log[i].table_name = "products" /\ log[i].action = "UPDATE"}
update_unit_price(product, new_price) ==
    /\ Cardinality(PriceChanges(audit_log)) < MaxPriceChanges
    /\ unit_price[product] # new_price
    /\ unit_price' = [unit_price EXCEPT ![product] = new_price]
    /\ audit_log' = Append(audit_log, AuditRow("products", "UPDATE", now))
    /\ last_call' = Call("update_unit_price", NULL, product)
    /\ UNCHANGED <<now, sales_interactions, transaction_items, user_store_access,
                   fn_owner, anomalies, mv, tx, seen>>

----------------------------------------------------------------------------
(* Refresh of the materialized views.  A CALL is one transaction: what a   *)
(* REFRESH ... CONCURRENTLY writes stays invisible to other sessions until *)
(* the transaction commits, and an error aborts the whole transaction.     *)

Views == <<"daily_sales", "product_performance", "regional_performance",
           "philippine_market_analysis", "tbwa_brand_performance",
           "brand_competition_dashboard", "category_performance_analytics">>
ViewNames == {Views[i] : i \in DOMAIN Views}
Procedures == {"refresh_analytics", "refresh_all_analytics"}
ViewsOf(proc) == IF proc = "refresh_analytics" THEN SubSeq(Views, 1, 3) ELSE Views

\* a relation that does not exist
NoRelation == {[relation |-> "does not exist"]}

\* the views that have a unique index, which REFRESH ... CONCURRENTLY requires
UniqueIndexed == ViewNames \ {"tbwa_brand_performance"}

ViewQuery(v, si, ti, price, t) ==
    CASE v = "daily_sales" -> daily_sales(si, t)
      [] v = "product_performance" -> product_performance(si, ti, price, t)
      [] v = "regional_performance" -> regional_performance(si, ti, price, t)
      [] v = "philippine_market_analysis" -> philippine_market_analysis(si, ti, price, t)
      [] v = "tbwa_brand_performance" -> tbwa_brand_performance(si, ti, price, t)
      [] v = "brand_competition_dashboard" -> brand_competition_dashboard(si, ti, price, t)
      [] OTHER -> category_performance_analytics(si, ti, price, t)
QueryRaises(v, si, ti, price, t) ==
    v = "brand_competition_dashboard" /\ division_by_zero(si, ti, price, t)

\* the scheduled job runs refresh_analytics, an operator calls refresh_all_analytics
Sessions == {"cron", "operator"}
ProcedureOf(p) == IF p = "cron" THEN "refresh_analytics" ELSE "refresh_all_analytics"

\* table-level lock modes: a SELECT takes ACCESS SHARE, REFRESH MATERIALIZED
\* VIEW CONCURRENTLY takes EXCLUSIVE, a plain REFRESH takes ACCESS EXCLUSIVE
ReadLockMode == "ACCESS SHARE"
RefreshLockMode_NotConcurrently == "ACCESS EXCLUSIVE"
RefreshLockMode == "EXCLUSIVE"
LockConflict(requested, held) ==
    ~ \/ requested = "ACCESS SHARE" /\ held # "ACCESS EXCLUSIVE"
      \/ held = "ACCESS SHARE" /\ requested # "ACCESS EXCLUSIVE"

\* a transaction: pc = 0 when idle, else the position of the next REFRESH
Idle == [pc |-> 0, refreshed |-> {}, pending |-> [v \in ViewNames |-> {}]]
Holds(p, v) == tx[p].pc # 0 /\ v \in tx[p].refreshed
\* no lock is taken
Blocked_Never(mode, v, self) == FALSE
Blocked(mode, v, self) ==
    \E q \in Sessions \ {self} : Holds(q, v) /\ LockConflict(mode, RefreshLockMode)

RunOutcome(proc, failed) == [op |-> proc, failed_view |-> failed]
CompletedRuns(log) == {i \in DOMAIN log : log[i].action = "COMPLETE"}

\* CALL refresh_analytics() / CALL refresh_all_analytics()
Begin(p) ==
    /\ tx[p].pc = 0
    /\ Cardinality(CompletedRuns(audit_log)) < MaxRefreshes
    /\ tx' = [tx EXCEPT ![p] = [Idle EXCEPT !.pc = 1]]
    /\ UNCHANGED <<now, sales_interactions, transaction_items, unit_price,
                   user_store_access, audit_log, last_call, fn_owner, anomalies, mv, seen>>

\* REFRESH MATERIALIZED VIEW CONCURRENTLY v succeeds: the statement sees the
\* facts committed when it starts
RefreshView(p) ==
    /\ tx[p].pc \in DOMAIN ViewsOf(ProcedureOf(p))
    /\ LET v == ViewsOf(ProcedureOf(p))[tx[p].pc]
       IN  /\ ~ Blocked(RefreshLockMode, v, p)
           /\ v \in UniqueIndexed
           /\ ~ QueryRaises(v, sales_interactions, transaction_items, unit_price, now)
           /\ tx' = [tx EXCEPT ![p] =
                  [pc |-> @.pc + 1,
                   refreshed |-> @.refreshed \cup {v},
                   pending |-> [@.pending EXCEPT ![v] =
                       ViewQuery(v, sales_interactions, transaction_items, unit_price, now)]]]
    /\ UNCHANGED <<now, sales_interactions, transaction_items, unit_price,
                   user_store_access, audit_log, last_call, fn_owner, anomalies, mv, seen>>

\* the statement raises (no unique index, an error of the query, or any
\* other error: cancellation, lock timeout, out of disk).  refresh_analytics
\* logs ERROR and re-raises, refresh_all_analytics has no handler: either
\* way the transaction aborts and nothing it wrote remains
RefreshFails(p) ==
    /\ tx[p].pc \in DOMAIN ViewsOf(ProcedureOf(p))
    /\ LET v == ViewsOf(ProcedureOf(p))[tx[p].pc]
       IN  /\ ~ Blocked(RefreshLockMode, v, p)
           /\ last_call' = RunOutcome(ProcedureOf(p), v)
    /\ tx' = [tx EXCEPT ![p] = Idle]
    /\ UNCHANGED <<now, sales_interactions, transaction_items, unit_price,
                   user_store_access, audit_log, fn_owner, anomalies, mv, seen>>

\* the procedure returns and its transaction commits
Commit(p) ==
    /\ tx[p].pc = Len(ViewsOf(ProcedureOf(p))) + 1
    /\ mv' = [v \in ViewNames |-> IF v \in tx[p].refreshed THEN tx[p].pending[v] ELSE mv[v]]
    /\ audit_log' = IF ProcedureOf(p) = "refresh_analytics"
                    THEN audit_log \o <<AuditRow("analytics_refresh", "START", now),
                                        AuditRow("analytics_refresh", "COMPLETE", now)>>
                    ELSE audit_log
    /\ last_call' = RunOutcome(ProcedureOf(p), NULL)
    /\ tx' = [tx EXCEPT ![p] = Idle]
    /\ UNCHANGED <<now, sales_interactions, transaction_items, unit_price,
                   user_store_access, fn_owner, anomalies, seen>>

\* a dashboard session selects from view v
Read(v) ==
    /\ ~ Blocked(ReadLockMode, v, "reader")
    /\ seen' = [view |-> v, rows |-> mv[v], refreshing |-> \E p \in Sessions : Holds(p, v)]
    /\ UNCHANGED <<now, sales_interactions, transaction_items, unit_price,
                   user_store_access, audit_log, last_call, fn_owner, anomalies, mv, tx>>

RefreshFacts ==
    {Txn(1, 1, StartNow - 2, 10, "c1", FALSE, FALSE),
     Txn(2, 2, StartNow - 40 * 24, 60, NULL, TRUE, FALSE)}
RefreshItems == {Item(1, 1, 1, 1), Item(2, 2, 2, 2)}
RefreshPrices == [p \in Products |-> IF p = 2 THEN 30 ELSE 10]

\* the views are created WITH DATA over the facts loaded before
InitRefresh ==
    /\ now = StartNow
    /\ sales_interactions = RefreshFacts
    /\ transaction_items = RefreshItems
    /\ unit_price = RefreshPrices
    /\ user_store_access = {}
    /\ audit_log = <<>>
    /\ last_call = NoCall
    /\ fn_owner = "db_admin"
    /\ anomalies = {}
    /\ mv = [v \in ViewNames |-> ViewQuery(v, RefreshFacts, RefreshItems, RefreshPrices, StartNow)]
    /\ tx = [p \in Sessions |-> Idle]
    /\ seen = [view |-> "daily_sales", rows |-> {}, refreshing |-> FALSE]

NextRefresh ==
    \/ load_sales(1, NULL, FALSE, 1, 1)
    \/ \E p \in Sessions : Begin(p)
    \/ \E p \in Sessions : RefreshView(p)
    \/ \E p \in Sessions : RefreshFails(p)
    \/ \E p \in Sessions : Commit(p)
    \/ \E v \in ViewNames : Read(v)

SpecRefresh == InitRefresh /\ [][NextRefresh]_vars

----------------------------------------------------------------------------
(* Anomaly detection.  AVG and STDDEV (the sample standard deviation) are  *)
(* not computed: a comparison with avg + 3 * stddev is decided exactly on  *)
(* integers.  For n values x with S = SUM(x) and Q = SUM(x * x),           *)
(*   avg = S / n,  stddev = sqrt((n * Q - S * S) / (n * (n - 1))),         *)
(* so  a > k * (avg + 3 * stddev)  iff  n*a - k*S > 0  and                 *)
(*   (n*a - k*S)^2 * (n - 1) > 9 * k^2 * n * (n*Q - S*S).                  *)

DetectedTypes == {"SUSPICIOUS_TRANSACTION", "UNUSUAL_PATTERN", "HIGH_SUBSTITUTION_RATE"}

SumOfSquares(rows) ==
    SetSum({<<r.interaction_id, r.total_amount * r.total_amount>> : r \in rows})
Spread(rows) ==
    Cardinality(rows) * SumOfSquares(rows) - Revenue(rows) * Revenue(rows)

\* total_amount >= k * high_value_threshold, which the code does not use
AtOrAboveThreshold(a, rows, k) ==
    LET n == Cardinality(rows)
        d == n * a - k * Revenue(rows)
    IN  /\ n >= 2
        /\ d >= 0
        /\ d * d * (n - 1) >= 9 * k * k * n * Spread(rows)

\* total_amount > k * high_value_threshold; the threshold is NULL, and the
\* comparison not true, with fewer than two transactions in the 30 days
GreaterThanThreshold(a, rows, k) ==
    LET n == Cardinality(rows)
        d == n * a - k * Revenue(rows)
    IN  /\ n >= 2
        /\ d > 0
        /\ d * d * (n - 1) > 9 * k * k * n * Spread(rows)

Anomaly(id, type, subject, severity, status, at, resolved) ==
    [id |-> id, type |-> type, subject |-> subject, severity |-> severity,
     status |-> status, created_at |-> at, resolved_at |-> resolved]

\* UPDATE anomalies SET status = 'resolved' ... for one type only
ResolveActive_OneType(rows, at) ==
    {IF a.type = "SUSPICIOUS_TRANSACTION" /\ a.status = "active"
     THEN [a EXCEPT !.status = "resolved", !.resolved_at = at] ELSE a : a \in rows}

\* UPDATE anomalies SET status = 'resolved', resolved_at = NOW() WHERE type IN (...) AND status = 'active'
ResolveActive(rows, at) ==
    {IF a.type \in DetectedTypes /\ a.status = "active"
     THEN [a EXCEPT !.status = "resolved", !.resolved_at = at] ELSE a : a \in rows}

\* the suspicious high-value transactions of the last 7 days
SuspiciousTransactions(si, run, t) ==
    {Anomaly(<<run, "SUSPICIOUS_TRANSACTION", r.interaction_id>>, "SUSPICIOUS_TRANSACTION",
             r.interaction_id,
             IF GreaterThanThreshold(r.total_amount, InWindow(si, 30, t), 2)
             THEN "high" ELSE "medium",
             "active", t, NULL_NUMERIC)
     : r \in {x \in InWindow(si, 7, t) :
                 GreaterThanThreshold(x.total_amount, InWindow(si, 30, t), 1)}}

\* store_performance: the stores with at least 5 transactions in the last 7 days
StorePerformance(si, t) ==
    {s \in {r.store_id : r \in InWindow(si, 7, t)} :
        Cardinality({r \in InWindow(si, 7, t) : r.store_id = s}) >= 5}
StoreRows(si, t, s) == {r \in InWindow(si, 7, t) : r.store_id = s}
RECURSIVE CountProduct(_, _, _)
CountProduct(si, t, stores) ==
    IF stores = {} THEN 1
    ELSE LET s == CHOOSE x \in stores : TRUE
         IN  Cardinality(StoreRows(si, t, s)) * CountProduct(si, t, stores \ {s})
\* avg_amount of store s times the product of all the stores' counts
ScaledAvg(si, t, s) ==
    Revenue(StoreRows(si, t, s)) * CountProduct(si, t, StorePerformance(si, t) \ {s})

\* ABS(sp.avg_amount - ps.overall_avg) > 2 * ps.overall_std, over the m
\* qualifying stores; overall_std is NULL for a single store
UnusualStores(si, t) ==
    LET sp == StorePerformance(si, t)
        m == Cardinality(sp)
        T == SetSum({<<s, ScaledAvg(si, t, s)>> : s \in sp})
        Q == SetSum({<<s, ScaledAvg(si, t, s) * ScaledAvg(si, t, s)>> : s \in sp})
    IN  {s \in sp :
            /\ m >= 2
            /\ (m * ScaledAvg(si, t, s) - T) * (m * ScaledAvg(si, t, s) - T) * (m - 1)
                   > 4 * m * (m * Q - T * T)}
UnusualPatterns(si, run, t) ==
    {Anomaly(<<run, "UNUSUAL_PATTERN", s>>, "UNUSUAL_PATTERN", s, "medium",
             "active", t, NULL_NUMERIC) : s \in UnusualStores(si, t)}

\* stores with at least 10 transactions in the last 7 days and a substitution
\* rate above 25 percent
HighSubstitutionStores(si, t) ==
    {s \in {r.store_id : r \in InWindow(si, 7, t)} :
        /\ Cardinality(StoreRows(si, t, s)) >= 10
        /\ CountIf(StoreRows(si, t, s), Substituted) * 100
               > 25 * Cardinality(StoreRows(si, t, s))}
HighSubstitutionRates(si, run, t) ==
    {Anomaly(<<run, "HIGH_SUBSTITUTION_RATE", s>>, "HIGH_SUBSTITUTION_RATE", s, "low",
             "active", t, NULL_NUMERIC) : s \in HighSubstitutionStores(si, t)}

DetectionRuns(log) == {i \in DOMAIN log : log[i].action = "DETECTION_RUN"}

\* CALL detect_sales_anomalies(), in a transaction of its own
detect_sales_anomalies ==
    LET run == Cardinality(DetectionRuns(audit_log)) + 1
    IN  /\ run <= MaxRuns
        /\ anomalies' = ResolveActive(anomalies, now)
                            \cup SuspiciousTransactions(sales_interactions, run, now)
                            \cup UnusualPatterns(sales_interactions, run, now)
                            \cup HighSubstitutionRates(sales_interactions, run, now)
        /\ audit_log' = Append(audit_log, AuditRow("anomalies", "DETECTION_RUN", now))
        /\ last_call' = RunOutcome("detect_sales_anomalies", NULL)
        /\ UNCHANGED <<now, sales_interactions, transaction_items, unit_price,
                       user_store_access, fn_owner, mv, tx, seen>>

\* the rows of audit_log WHERE action = 'FAILED_ACCESS' AND timestamp >=
\* CURRENT_DATE - INTERVAL '24 hours'.  No trigger or procedure of the
\* migrations writes such a row; one written by an application carries the
\* client's ip_address
FailedAccess(log, t) ==
    {i \in DOMAIN log : /\ log[i].action = "FAILED_ACCESS"
                        /\ log[i].timestamp >= (CURRENT_DATE(t) - 1) * 24}
\* the view failed_access_attempts: one row per address (and user agent,
\* one per address here) with more than 5 attempts
failed_access_attempts(log, t) ==
    LET hits == FailedAccess(log, t)
        Attempts(a) == Cardinality({i \in hits : log[i].ip_address = a})
    IN  {[ip_address |-> a, attempt_count |-> Attempts(a)] :
            a \in {b \in {log[i].ip_address : i \in hits} : Attempts(b) > 5}}
\* SELECT COUNT(*) FROM failed_access_attempts WHERE attempt_count > 10
SuspiciousIps(log, t) ==
    Cardinality({f \in failed_access_attempts(log, t) : f.attempt_count > 10})

\* the security-audit job, every sixth hour: the SELECT has an aggregate and
\* no GROUP BY, so it returns one row, with the count, whatever it counts
security_audit ==
    /\ HourOf(now) % 6 = 0
    /\ ~ \E a \in anomalies : a.type = "SECURITY_ALERT" /\ a.created_at = now
    /\ anomalies' = anomalies \cup
           {Anomaly(<<now, "SECURITY_ALERT", 0>>, "SECURITY_ALERT",
                    SuspiciousIps(audit_log, now), "high", "active", now, NULL_NUMERIC)}
    /\ UNCHANGED <<now, sales_interactions, transaction_items, unit_price,
                   user_store_access, audit_log, last_call, fn_owner, mv, tx, seen>>

\* nine transactions of the last 30 days without line items, eight of them
\* of the last 7 days and three of those with a substitution, and one older
\* transaction with a line item
DetectFacts ==
    {Txn(i, 1, StartNow - 2, 0, NULL, FALSE, i <= 3) : i \in 1..8}
        \cup {Txn(9, 1, StartNow - 20 * 24, 0, NULL, FALSE, FALSE),
              Txn(10, 2, StartNow - 40 * 24, 500, "c1", FALSE, FALSE)}
DetectItems == {Item(1, 10, 3, 2)}
DetectPrices == [p \in Products |-> CASE p = 1 -> 1 [] p = 2 -> 10 [] OTHER -> 250]

InitDetect ==
    /\ now = StartNow
    /\ sales_interactions = DetectFacts
    /\ transaction_items = DetectItems
    /\ unit_price = DetectPrices
    /\ user_store_access = {}
    /\ audit_log = <<>>
    /\ last_call = NoCall
    /\ fn_owner = "db_admin"
    /\ anomalies = {}
    /\ mv = <<>>
    /\ tx = <<>>
    /\ seen = <<>>

NextDetect ==
    \/ \E store \in Stores, product \in Products : load_sales(store, NULL, FALSE, product, 1)
    \/ detect_sales_anomalies
    \/ security_audit

SpecDetect == InitDetect /\ [][NextDetect]_vars

----------------------------------------------------------------------------
(* The fact store under loads and price changes                            *)

InitFacts ==
    /\ now = StartNow
    /\ sales_interactions = RefreshFacts
    /\ transaction_items = RefreshItems
    /\ unit_price = RefreshPrices
    /\ user_store_access = {}
    /\ audit_log = <<>>
    /\ last_call = NoCall
    /\ fn_owner = "db_admin"
    /\ anomalies = {}
    /\ mv = <<>>
    /\ tx = <<>>
    /\ seen = <<>>

NextFacts ==
    \/ \E store \in Stores, cust \in Customers, subst \in BOOLEAN,
          product \in Products, qty \in Quantities :
           load_sales(store, cust, subst, product, qty)
    \/ \E product \in Products, new_price \in Prices : update_unit_price(product, new_price)

SpecFacts == InitFacts /\ [][NextFacts]_vars

----------------------------------------------------------------------------
(* customer_segments: a plain view, computed when it is read               *)

\* customer_metrics: the customers with a transaction in the last 365 days
CustomerRows(si, t, c) == {r \in InWindow(si, 365, t) : r.customer_id = c}
RECURSIVE SetMax(_)
SetMax(S) == LET x == CHOOSE y \in S : TRUE
             IN  IF S = {x} THEN x
                 ELSE IF x > SetMax(S \ {x}) THEN x ELSE SetMax(S \ {x})
LastTransaction(rows) == SetMax({r.transaction_date : r \in rows})
\* timestamp >= CURRENT_DATE - INTERVAL 'n days'
Since(ts, n, t) == ts >= (CURRENT_DATE(t) - n) * 24

recency_segment(last, t) ==
    IF Since(last, 30, t) THEN "Recent"
    ELSE IF Since(last, 90, t) THEN "Active" ELSE "Inactive"
frequency_segment(transaction_count) ==
    IF transaction_count >= 10 THEN "Frequent"
    ELSE IF transaction_count >= 5 THEN "Regular" ELSE "Occasional"
monetary_segment(total_spent) ==
    IF total_spent >= 10000 THEN "Premium"
    ELSE IF total_spent >= 5000 THEN "Standard" ELSE "Budget"

\* the same CASE with its first two branches exchanged
customer_segment_LoyalFirst(total_spent, transaction_count, last, t) ==
    IF total_spent >= 5000 /\ transaction_count >= 5 /\ Since(last, 60, t) THEN "Loyal"
    ELSE IF total_spent >= 10000 /\ transaction_count >= 10 /\ Since(last, 30, t) THEN "VIP"
    ELSE IF Since(last, 30, t) THEN "Active"
    ELSE "At Risk"

\* 003 lines 656-661
customer_segment(total_spent, transaction_count, last, t) ==
    IF total_spent >= 10000 /\ transaction_count >= 10 /\ Since(last, 30, t) THEN "VIP"
    ELSE IF total_spent >= 5000 /\ transaction_count >= 5 /\ Since(last, 60, t) THEN "Loyal"
    ELSE IF Since(last, 30, t) THEN "Active"
    ELSE "At Risk"

\* 003 lines 615-662
customer_segments(si, t) ==
    {LET rows == CustomerRows(si, t, c)
     IN  [customer_id |-> c,
          transaction_count |-> Cardinality(rows),
          total_spent |-> Revenue(rows),
          avg_transaction_value |-> <<Revenue(rows), Cardinality(rows)>>,
          last_transaction_date |-> LastTransaction(rows),
          active_days |-> Cardinality({DateOf(r) : r \in rows}),
          recency_segment |-> recency_segment(LastTransaction(rows), t),
          frequency_segment |-> frequency_segment(Cardinality(rows)),
          monetary_segment |-> monetary_segment(Revenue(rows)),
          customer_segment |-> customer_segment(Revenue(rows), Cardinality(rows),
                                                LastTransaction(rows), t)]
     : c \in {r.customer_id : r \in InWindow(si, 365, t)} \ {NULL}}

\* a session selects from customer_segments
read_customer_segments ==
    /\ seen' = [view |-> "customer_segments",
                rows |-> customer_segments(sales_interactions, now),
                refreshing |-> FALSE]
    /\ UNCHANGED <<now, sales_interactions, transaction_items, unit_price,
                   user_store_access, audit_log, last_call, fn_owner, anomalies, mv, tx>>

\* the history of one customer: count transactions of one amount, the
\* latest one age days old and one a day before the other; and one
\* transaction without a customer
SegmentCounts == {1, 4, 5, 9, 10}
SegmentAmounts == {500, 999, 1000, 2000}
SegmentAges == {0, 30, 31, 60, 61, 360}
History(count, amount, age) ==
    {Txn(i, 1, StartNow - (age + i - 1) * 24, amount, "c1", FALSE, FALSE) : i \in 1..count}
        \cup {Txn(count + 1, 2, StartNow, amount, NULL, FALSE, FALSE)}

InitSegments ==
    /\ now = StartNow
    /\ \E count \in SegmentCounts, amount \in SegmentAmounts, age \in SegmentAges :
           sales_interactions = History(count, amount, age)
    /\ transaction_items = {}
    /\ unit_price = <<>>
    /\ user_store_access = {}
    /\ audit_log = <<>>
    /\ last_call = NoCall
    /\ fn_owner = "db_admin"
    /\ anomalies = {}
    /\ mv = <<>>
    /\ tx = <<>>
    /\ seen = [view |-> "none", rows |-> {}, refreshing |-> FALSE]

NextSegments == read_customer_segments

SpecSegments == InitSegments /\ [][NextSegments]_vars

----------------------------------------------------------------------------
(* The brand views as they are created: CREATE MATERIALIZED VIEW fills a   *)
(* view from the facts present, and readers select from it.                *)

\* one recent transaction with a line item of Alaska (Dairy) and one of each
\* Snacks brand, every product priced 1
BrandQuantities == {1, 3, 4, 5, 14, 16}
BrandFacts(q3, q4, q5) == {Txn(1, 1, StartNow - 2, 1 + q3 + q4 + q5, NULL, FALSE, FALSE)}
BrandItemsSold(q3, q4, q5) ==
    {Item(1, 1, 1, 1), Item(2, 1, 3, q3), Item(3, 1, 4, q4), Item(4, 1, 5, q5)}
BrandPrices == [p \in Products |-> 1]

InitBrands ==
    /\ now = StartNow
    /\ \E q3 \in BrandQuantities, q4 \in BrandQuantities, q5 \in BrandQuantities :
           /\ sales_interactions = BrandFacts(q3, q4, q5)
           /\ transaction_items = BrandItemsSold(q3, q4, q5)
    /\ unit_price = BrandPrices
    /\ user_store_access = {}
    /\ audit_log = <<>>
    /\ last_call = NoCall
    /\ fn_owner = "db_admin"
    /\ anomalies = {}
    /\ mv = [v \in ViewNames |->
                ViewQuery(v, sales_interactions, transaction_items, unit_price, now)]
    /\ tx = [p \in Sessions |-> Idle]
    /\ seen = [view |-> "none", rows |-> {}, refreshing |-> FALSE]

NextBrands == \E v \in ViewNames : Read(v)

SpecBrands == InitBrands /\ [][NextBrands]_vars

----------------------------------------------------------------------------
(* The daily sales rollup as it is created and read                        *)

\* three transactions of amounts 100, 150 and 200, each at one of two
\* stores, at 09:00 or 14:00, yesterday or 100 days ago
RollupHours == {9, 14}
RollupAges == {1, 100}
RollupAmounts == <<100, 150, 200>>
RollupFacts(store, hour, age) ==
    {Txn(i, store[i], StartNow - age[i] * 24 + hour[i], RollupAmounts[i], NULL, FALSE, FALSE)
     : i \in DOMAIN RollupAmounts}

InitRollup ==
    /\ now = StartNow
    /\ \E store \in [DOMAIN RollupAmounts -> Stores],
          hour \in [DOMAIN RollupAmounts -> RollupHours],
          age \in [DOMAIN RollupAmounts -> RollupAges] :
           sales_interactions = RollupFacts(store, hour, age)
    /\ transaction_items = {}
    /\ unit_price = RefreshPrices
    /\ user_store_access = {}
    /\ audit_log = <<>>
    /\ last_call = NoCall
    /\ fn_owner = "db_admin"
    /\ anomalies = {}
    /\ mv = [v \in ViewNames |->
                ViewQuery(v, sales_interactions, transaction_items, unit_price, now)]
    /\ tx = [p \in Sessions |-> Idle]
    /\ seen = [view |-> "none", rows |-> {}, refreshing |-> FALSE]

NextRollup == \E v \in ViewNames : Read(v)

SpecRollup == InitRollup /\ [][NextRollup]_vars

----------------------------------------------------------------------------
(* Refreshes that follow one another.  A CALL is taken as one step: the    *)
(* REFRESH statements of one call run in one transaction, CURRENT_DATE is  *)
(* that of the transaction's start, and an error aborts all of them.       *)

\* the hour of the daily-analytics-refresh job
RefreshHour == 2
\* days the clock may advance
MaxDays == 1
\* refresh calls that commit
MaxRepeats == 2
\* the clock moves from the scheduled refresh to the first business hour,
\* when dashboard_user may call the procedure, and on to the next
\* scheduled refresh
Elapse ==
    /\ now < StartNow + RefreshHour + MaxDays * 24
    /\ now' = IF HourOf(now) < BusinessOpen
              THEN CURRENT_DATE(now) * 24 + BusinessOpen
              ELSE (CURRENT_DATE(now) + 1) * 24 + RefreshHour
    /\ UNCHANGED <<sales_interactions, transaction_items, unit_price,
                   user_store_access, audit_log, last_call, fn_owner, anomalies, mv, tx, seen>>

\* the first statement of the call that raises, 0 when none does
FirstRaising(proc, si, ti, price, t) ==
    LET raising == {i \in DOMAIN ViewsOf(proc) :
                        \/ mv[ViewsOf(proc)[i]] = NoRelation
                        \/ ViewsOf(proc)[i] \notin UniqueIndexed
                        \/ QueryRaises(ViewsOf(proc)[i], si, ti, price, t)}
    IN  IF raising = {} THEN 0
        ELSE CHOOSE i \in raising : \A j \in raising : i <= j

\* CALL refresh_analytics() by the cron job or by dashboard_user,
\* CALL refresh_all_analytics() by an operator
CallRefresh(proc) ==
    LET failed == FirstRaising(proc, sales_interactions, transaction_items, unit_price, now)
    IN  /\ Cardinality(CompletedRuns(audit_log)) < MaxRepeats
        /\ IF failed = 0
           THEN /\ mv' = [v \in ViewNames |->
                            IF \E i \in DOMAIN ViewsOf(proc) : ViewsOf(proc)[i] = v
                            THEN ViewQuery(v, sales_interactions, transaction_items,
                                           unit_price, now)
                            ELSE mv[v]]
                /\ audit_log' = IF proc = "refresh_analytics"
                                THEN audit_log \o <<AuditRow("analytics_refresh", "START", now),
                                                    AuditRow("analytics_refresh", "COMPLETE", now)>>
                                ELSE audit_log
                /\ last_call' = RunOutcome(proc, NULL)
           ELSE /\ last_call' = RunOutcome(proc, ViewsOf(proc)[failed])
                /\ UNCHANGED <<mv, audit_log>>
        /\ UNCHANGED <<now, sales_interactions, transaction_items, unit_price,
                       user_store_access, fn_owner, anomalies, tx, seen>>

\* one transaction at the edge of the 90-day window or well inside it, and
\* one of two days ago
RepeatDates == {StartNow - 90 * 24 + 4, StartNow - 89 * 24 + 4, StartNow - 30 * 24 + 4}
RepeatItems(product) == {Item(1, 1, product, 1), Item(2, 2, 2, 2)}
RepeatFacts(store, at, product) ==
    UpdateTotals({Txn(1, store, at, 0, "c1", FALSE, FALSE),
                  Txn(2, 2, StartNow - 2 * 24, 0, NULL, TRUE, FALSE)},
                 RepeatItems(product), RefreshPrices)

\* the views are created WITH DATA over the facts loaded before
InitRepeat ==
    /\ now = StartNow + RefreshHour
    /\ \E store \in Stores, at \in RepeatDates, product \in {1, 3} :
           /\ sales_interactions = RepeatFacts(store, at, product)
           /\ transaction_items = RepeatItems(product)
    /\ unit_price = RefreshPrices
    /\ user_store_access = {}
    /\ audit_log = <<>>
    /\ last_call = NoCall
    /\ fn_owner = "db_admin"
    /\ anomalies = {}
    /\ mv = [v \in ViewNames |->
                ViewQuery(v, sales_interactions, transaction_items, unit_price, StartNow)]
    /\ tx = [p \in Sessions |-> Idle]
    /\ seen = [view |-> "none", rows |-> {}, refreshing |-> FALSE]

NextRepeat ==
    \/ \E proc \in Procedures : CallRefresh(proc)
    \/ Elapse
    \/ load_sales(1, NULL, FALSE, 1, 1)

SpecRepeat == InitRepeat /\ [][NextRepeat]_vars

----------------------------------------------------------------------------
(* The scheduled jobs: security-audit, anomaly-detection, weekly-cleanup.  *)
(* pg_cron starts each job at each of its times; the clock of the model    *)
(* moves on when the jobs due at the current instant have run.             *)

\* INTERVAL '1 month', counted as 30 days
MonthDays == 30
\* NOW() - INTERVAL 'n months'
MonthsAgo_SinceNow(n, t) == t - n * MonthDays * 24
\* CURRENT_DATE - INTERVAL 'n months'
MonthsAgo(n, t) == (CURRENT_DATE(t) - n * MonthDays) * 24

\* CALL purge_old_data(retention_months), in a transaction of its own.  The
\* DELETE on sales_interactions fires log_data_changes for each row
purge_old_data(retention_months) ==
    LET cutoff_date == MonthsAgo(retention_months, now)
        old == {r \in sales_interactions : r.transaction_date < cutoff_date}
        logged == audit_log \o AuditRows("sales_interactions", "DELETE", now, Cardinality(old))
        Kept(row) == ~ (row.timestamp < MonthsAgo(6, now))
    IN  /\ transaction_items' =
               {i \in transaction_items : ~ \E r \in old : r.interaction_id = i.interaction_id}
        /\ sales_interactions' = sales_interactions \ old
        /\ audit_log' = Append(SelectSeq(logged, Kept),
                               AuditRow("data_cleanup", "PURGE_COMPLETE", now))
        /\ anomalies' = {a \in anomalies :
                            ~ (a.status = "resolved" /\ a.resolved_at < MonthsAgo(3, now))}
        /\ last_call' = Call("purge_old_data", NULL, retention_months)
        /\ UNCHANGED <<now, unit_price, user_store_access, fn_owner, mv, tx, seen>>

\* the jobs start on a Sunday at 00:00 (EXTRACT(DOW) = 0)
JobsStart == StartNow + 3 * 24
JobsEnd == InstantAfter(JobsStart, MaxTicks)

RanAt(log, action, t) == \E i \in DOMAIN log : log[i].action = action /\ log[i].timestamp = t

\* security-audit, '0 */6 * * *'
SecurityAuditDue ==
    /\ HourOf(now) % 6 = 0
    /\ ~ \E a \in anomalies : a.type = "SECURITY_ALERT" /\ a.created_at = now
\* anomaly-detection, '0 8-20 * * *'
DetectionDue ==
    /\ HourOf(now) \in 8..20
    /\ ~ RanAt(audit_log, "DETECTION_RUN", now)
\* weekly-cleanup, '0 0 * * 0'
CleanupDue ==
    /\ HourOf(now) = 0
    /\ CURRENT_DATE(now) % 7 = 0
    /\ ~ RanAt(audit_log, "PURGE_COMPLETE", now)

anomaly_detection == DetectionDue /\ detect_sales_anomalies
weekly_cleanup == CleanupDue /\ purge_old_data(12)

CronTick ==
    /\ ~ SecurityAuditDue /\ ~ DetectionDue /\ ~ CleanupDue
    /\ now < JobsEnd
    /\ now' = NextInstant(now)
    /\ UNCHANGED <<sales_interactions, transaction_items, unit_price,
                   user_store_access, audit_log, last_call, fn_owner, anomalies, mv, tx, seen>>

\* what earlier runs of the jobs may have left: a finding resolved long
\* ago, a security alert of long ago, findings and a resolved finding of
\* yesterday's last detection run
EarlierAnomalies ==
    {Anomaly(<<0, "SUSPICIOUS_TRANSACTION", 10>>, "SUSPICIOUS_TRANSACTION", 10, "medium",
             "resolved", JobsStart - 101 * 24, JobsStart - 100 * 24),
     Anomaly(<<JobsStart - 100 * 24, "SECURITY_ALERT", 0>>, "SECURITY_ALERT", 0, "high",
             "active", JobsStart - 100 * 24, NULL_NUMERIC),
     Anomaly(<<0, "SUSPICIOUS_TRANSACTION", 9>>, "SUSPICIOUS_TRANSACTION", 9, "medium",
             "active", JobsStart - 4, NULL_NUMERIC),
     Anomaly(<<0, "UNUSUAL_PATTERN", 1>>, "UNUSUAL_PATTERN", 1, "medium",
             "resolved", JobsStart - 5, JobsStart - 4),
     Anomaly(<<0, "HIGH_SUBSTITUTION_RATE", 1>>, "HIGH_SUBSTITUTION_RATE", 1, "medium",
             "active", JobsStart - 4, NULL_NUMERIC)}

\* the facts of the detection model and a transaction of 400 days ago
JobsFacts == DetectFacts \cup {Txn(11, 2, JobsStart - 400 * 24, 500, NULL, FALSE, FALSE)}
JobsItems == DetectItems \cup {Item(2, 11, 3, 2)}

InitJobs ==
    /\ now = JobsStart
    /\ sales_interactions = JobsFacts
    /\ transaction_items = JobsItems
    /\ unit_price = DetectPrices
    /\ user_store_access = {}
    /\ audit_log = <<AuditRow("anomalies", "DETECTION_RUN", JobsStart - 4)>>
    /\ last_call = NoCall
    /\ fn_owner = "db_admin"
    /\ anomalies \in SUBSET EarlierAnomalies
    /\ mv = <<>>
    /\ tx = <<>>
    /\ seen = <<>>

NextJobs ==
    \/ security_audit
    \/ anomaly_detection
    \/ weekly_cleanup
    \/ CronTick

SpecJobs == InitJobs /\ [][NextJobs]_vars /\ WF_vars(NextJobs)

----------------------------------------------------------------------------
(* A detection run that fails.  detect_sales_anomalies has no EXCEPTION    *)
(* block and no COMMIT: an error raised by any of its statements ends the  *)
(* CALL and rolls back what the earlier statements of the call wrote.      *)

\* the statements of the procedure: the statistics query, the UPDATE that
\* resolves, the three INSERT ... SELECT, the INSERT INTO audit_log
DetectSteps == <<"statistics", "resolve", "SUSPICIOUS_TRANSACTION", "UNUSUAL_PATTERN",
                 "HIGH_SUBSTITUTION_RATE", "DETECTION_RUN">>

\* statement `step` raises (cancellation, lock timeout, out of disk, ...)
detect_sales_anomalies_raises(step) ==
    /\ last_call' = RunOutcome("detect_sales_anomalies", DetectSteps[step])
    /\ UNCHANGED <<now, sales_interactions, transaction_items, unit_price,
                   user_store_access, audit_log, fn_owner, anomalies, mv, tx, seen>>

InitFailure ==
    /\ now = StartNow
    /\ sales_interactions = DetectFacts
    /\ transaction_items = DetectItems
    /\ unit_price = DetectPrices
    /\ user_store_access = {}
    /\ audit_log = <<>>
    /\ last_call = NoCall
    /\ fn_owner = "db_admin"
    /\ anomalies = {}
    /\ mv = [v \in ViewNames |->
                ViewQuery(v, DetectFacts, DetectItems, DetectPrices, StartNow)]
    /\ tx = [p \in Sessions |-> Idle]
    /\ seen = [view |-> "none", rows |-> {}, refreshing |-> FALSE]

NextFailure ==
    \/ \E product \in {1, 3} : load_sales(1, NULL, FALSE, product, 1)
    \/ detect_sales_anomalies
    \/ security_audit
    \/ \E step \in DOMAIN DetectSteps : detect_sales_anomalies_raises(step)

SpecFailure == InitFailure /\ [][NextFailure]_vars

----------------------------------------------------------------------------
(* The audit log under the operations that write to it or delete from it   *)

\* database-optimization.sql, written by scout-optimize.sh and run with
\* psql -f: of the tables of the model it touches audit_log only
\* (DELETE FROM audit_log WHERE timestamp < CURRENT_DATE - INTERVAL '90 days')
database_optimization ==
    LET Kept(row) == ~ (row.timestamp < (CURRENT_DATE(now) - 90) * 24)
    IN  /\ audit_log' = SelectSeq(audit_log, Kept)
        /\ last_call' = Call("database_optimization", NULL, 0)
        /\ UNCHANGED <<now, sales_interactions, transaction_items, unit_price,
                       user_store_access, fn_owner, anomalies, mv, tx, seen>>

\* rows that earlier operations wrote: 200 days ago, 100 days ago, today
EarlierAudit ==
    <<AuditRow("sales_interactions", "INSERT", JobsStart - 200 * 24),
      AuditRow("products", "UPDATE", JobsStart - 100 * 24),
      AuditRow("anomalies", "DETECTION_RUN", JobsStart - 4)>>

InitAudit ==
    /\ now = JobsStart
    /\ sales_interactions = RefreshFacts
    /\ transaction_items = RefreshItems
    /\ unit_price = RefreshPrices
    /\ user_store_access = {}
    /\ \E old \in SUBSET DOMAIN EarlierAudit :
           LET In(row) == \E i \in old : EarlierAudit[i] = row
           IN  audit_log = SelectSeq(EarlierAudit, In)
    /\ last_call = NoCall
    /\ fn_owner = "db_admin"
    /\ anomalies = {}
    /\ mv = <<>>
    /\ tx = <<>>
    /\ seen = <<>>

NextAudit ==
    \/ load_sales(1, NULL, FALSE, 1, 1)
    \/ \E new_price \in Prices : update_unit_price(1, new_price)
    \/ weekly_cleanup
    \/ database_optimization

SpecAudit == InitAudit /\ [][NextAudit]_vars

----------------------------------------------------------------------------
(* The refresh schedule.  Of the procedures that refresh materialized      *)
(* views only refresh_analytics is given to cron.schedule; an operator or  *)
(* dashboard_user may call refresh_all_analytics at any time.              *)

ScheduleEnd == StartNow + RefreshHour + MaxDays * 24

\* daily-analytics-refresh, '0 2 * * *'
RefreshDue ==
    /\ HourOf(now) = RefreshHour
    /\ ~ RanAt(audit_log, "COMPLETE", now)
daily_analytics_refresh == RefreshDue /\ CallRefresh("refresh_analytics")

\* the clock moves on when the job due at the current instant has run
ScheduleTick == ~ RefreshDue /\ Elapse

\* sales arrive until the last scheduled refresh of the model
LoadBeforeRefresh ==
    /\ now < ScheduleEnd
    /\ \E product \in {1, 3} : load_sales(1, NULL, FALSE, product, 1)

NextSchedule ==
    \/ daily_analytics_refresh
    \/ ScheduleTick
    \/ LoadBeforeRefresh
    \/ CallRefresh("refresh_all_analytics")

\* pg_cron starts the job at each of its times and time passes; nothing
\* makes sales arrive or an operator call a procedure
SpecSchedule ==
    /\ InitRepeat
    /\ [][NextSchedule]_vars
    /\ WF_vars(daily_analytics_refresh)
    /\ WF_vars(ScheduleTick)

----------------------------------------------------------------------------
(* The retention purge called with different retention periods             *)

\* calls of purge_old_data
MaxPurges == 2
\* the weekly job and the README pass 12, the default; db_admin may pass
\* any number, here 1
RetentionMonths == {1, 12}

Purges(log) == {i \in DOMAIN log : log[i].action = "PURGE_COMPLETE"}
CallPurge(retention_months) ==
    /\ Cardinality(Purges(audit_log)) < MaxPurges
    /\ purge_old_data(retention_months)

\* transactions dated just before and just after the two cutoffs, and a
\* recent one; the first has two line items, the others one each
PurgeDates ==
    {StartNow - MonthDays * 24 - 4, StartNow - MonthDays * 24 + 4,
     StartNow - 12 * MonthDays * 24 - 4, StartNow - 12 * MonthDays * 24 + 4,
     StartNow - 2}
PurgeItems == {Item(1, 1, 1, 1), Item(2, 1, 3, 2), Item(3, 2, 2, 1), Item(4, 3, 1, 1)}
PurgeFacts(at) ==
    UpdateTotals({Txn(i, 1, at[i], 0, NULL, FALSE, FALSE) : i \in DOMAIN at},
                 PurgeItems, RefreshPrices)

InitPurge ==
    /\ now = StartNow + BusinessOpen
    /\ \E at \in [1..3 -> PurgeDates] : sales_interactions = PurgeFacts(at)
    /\ transaction_items = PurgeItems
    /\ unit_price = RefreshPrices
    /\ user_store_access = {}
    /\ audit_log = <<>>
    /\ last_call = NoCall
    /\ fn_owner = "db_admin"
    /\ anomalies = {}
    /\ mv = <<>>
    /\ tx = <<>>
    /\ seen = <<>>

NextPurge == \E retention_months \in RetentionMonths : CallPurge(retention_months)

SpecPurge == InitPurge /\ [][NextPurge]_vars

----------------------------------------------------------------------------
(* The statements of the migrations that create the materialized views,    *)
(* run with psql \i: each statement is its own transaction and an error    *)
(* in one does not stop the next.                                          *)

\* the select list of daily_sales, by position
daily_sales_select ==
    <<"sale_date", "store_id", "region", "store_name", "transaction_count",
      "daily_revenue", "avg_transaction_value", "influenced_transactions",
      "substitution_transactions", "day_of_week", "peak_hour">>
\* the columns that are COUNT, SUM or AVG
daily_sales_aggregates ==
    {"transaction_count", "daily_revenue", "avg_transaction_value",
     "influenced_transactions", "substitution_transactions"}
\* GROUP BY 1, 2, 3, 4, 9, 10
daily_sales_group_by == <<1, 2, 3, 4, 9, 10>>
GroupedColumns(select, group_by) == {select[group_by[i]] : i \in DOMAIN group_by}
\* PostgreSQL rejects a GROUP BY position that names an aggregate
\* ("aggregate functions are not allowed in GROUP BY") and a select-list
\* column over a plain table column that is neither grouped nor aggregated
GroupingError(select, aggregates, group_by) ==
    \/ GroupedColumns(select, group_by) \cap aggregates # {}
    \/ \E i \in DOMAIN select :
           select[i] \notin aggregates /\ select[i] \notin GroupedColumns(select, group_by)

CreateRaises(v, si, ti, price, t) ==
    \/ v = "daily_sales"
           /\ GroupingError(daily_sales_select, daily_sales_aggregates, daily_sales_group_by)
    \/ QueryRaises(v, si, ti, price, t)

Statement(v, failed) == [op |-> "CREATE MATERIALIZED VIEW", view |-> v, failed |-> failed]
\* the position in Views of the next statement of the migrations
NextStatement ==
    IF last_call = NoCall THEN 1
    ELSE IF last_call.op = "CREATE MATERIALIZED VIEW"
         THEN 1 + CHOOSE i \in DOMAIN Views : Views[i] = last_call.view
         ELSE Len(Views) + 1

\* DROP MATERIALIZED VIEW IF EXISTS v CASCADE; CREATE MATERIALIZED VIEW v AS ...
create_materialized_view ==
    /\ NextStatement \in DOMAIN Views
    /\ LET v == Views[NextStatement]
           raises == CreateRaises(v, sales_interactions, transaction_items, unit_price, now)
       IN  /\ mv' = [mv EXCEPT ![v] =
                        IF raises THEN NoRelation
                        ELSE ViewQuery(v, sales_interactions, transaction_items,
                                       unit_price, now)]
           /\ last_call' = Statement(v, raises)
    /\ UNCHANGED <<now, sales_interactions, transaction_items, unit_price,
                   user_store_access, audit_log, fn_owner, anomalies, tx, seen>>

\* the facts are loaded, no view exists yet
InitMigrate ==
    /\ now = StartNow
    /\ \E store \in [DOMAIN RollupAmounts -> Stores],
          hour \in [DOMAIN RollupAmounts -> RollupHours],
          age \in [DOMAIN RollupAmounts -> RollupAges] :
           sales_interactions = RollupFacts(store, hour, age)
    /\ transaction_items = {}
    /\ unit_price = RefreshPrices
    /\ user_store_access = {}
    /\ audit_log = <<>>
    /\ last_call = NoCall
    /\ fn_owner = "db_admin"
    /\ anomalies = {}
    /\ mv = [v \in ViewNames |-> NoRelation]
    /\ tx = [p \in Sessions |-> Idle]
    /\ seen = [view |-> "none", rows |-> {}, refreshing |-> FALSE]

\* CALL refresh_analytics() / CALL refresh_all_analytics() once the
\* migrations have run
refresh_after_migration(proc) ==
    /\ NextStatement \notin DOMAIN Views
    /\ CallRefresh(proc)

\* the facts that are one transaction with no, one or two line items and
\* one with one, each flagged or not; the views were created before the
\* facts were loaded
RegionItems(n) == {Item(i, 1, 1, 1) : i \in 1..n} \cup {Item(3, 2, 3, 2)}
RegionFacts(store, infl, subst, n) ==
    UpdateTotals({Txn(id, store[id], StartNow - 2 * 24, 0, NULL, infl[id], subst[id])
                     : id \in 1..2},
                 RegionItems(n), RefreshPrices)

InitRegion ==
    /\ now = StartNow
    /\ \E store \in [1..2 -> Stores], infl \in [1..2 -> BOOLEAN],
          subst \in [1..2 -> BOOLEAN], n \in 0..2 :
           /\ sales_interactions = RegionFacts(store, infl, subst, n)
           /\ transaction_items = RegionItems(n)
    /\ unit_price = RefreshPrices
    /\ user_store_access = {}
    /\ audit_log = <<>>
    /\ last_call = NoCall
    /\ fn_owner = "db_admin"
    /\ anomalies = {}
    /\ mv = [v \in ViewNames |-> ViewQuery(v, {}, {}, unit_price, now)]
    /\ tx = [p \in Sessions |-> Idle]
    /\ seen = [view |-> "none", rows |-> {}, refreshing |-> FALSE]

NextRegion ==
    \/ \E proc \in Procedures : CallRefresh(proc)
    \/ \E subst \in BOOLEAN : load_sales(1, NULL, subst, 1, 1)

SpecRegion == InitRegion /\ [][NextRegion]_vars

NextMigrate ==
    \/ create_materialized_view
    \/ \E proc \in Procedures : refresh_after_migration(proc)

SpecMigrate == InitMigrate /\ [][NextMigrate]_vars

----------------------------------------------------------------------------
(* The retention purge and the refresh procedures side by side.  It is     *)
(* Sunday 00:00, when weekly-cleanup is due; an operator may CALL          *)
(* purge_old_data and the refresh procedures at any time.  No procedure    *)
(* takes a lock on sales_interactions beyond those of its statements: a    *)
(* DELETE (ROW EXCLUSIVE) and the SELECT of a REFRESH (ACCESS SHARE) do    *)
(* not conflict.                                                           *)

\* a transaction of 40 days ago (inside the 90-day windows, older than one
\* month), one older than 12 months and a recent one, on or off
OverlapDates == [1..3 -> {JobsStart - 40 * 24, JobsStart - 12 * MonthDays * 24 - 4,
                          JobsStart - 2}]

InitOverlap ==
    /\ now = JobsStart
    /\ \E at \in OverlapDates : sales_interactions = PurgeFacts(at)
    /\ transaction_items = PurgeItems
    /\ unit_price = RefreshPrices
    /\ user_store_access = {}
    /\ audit_log = <<>>
    /\ last_call = NoCall
    /\ fn_owner = "db_admin"
    /\ anomalies = {}
    /\ mv = [v \in ViewNames |->
                ViewQuery(v, sales_interactions, transaction_items, unit_price, now)]
    /\ tx = [p \in Sessions |-> Idle]
    /\ seen = [view |-> "none", rows |-> {}, refreshing |-> FALSE]

NextOverlap ==
    \/ \E p \in Sessions : Begin(p)
    \/ \E p \in Sessions : RefreshView(p)
    \/ \E p \in Sessions : RefreshFails(p)
    \/ \E p \in Sessions : Commit(p)
    \/ weekly_cleanup
    \/ \E retention_months \in RetentionMonths : CallPurge(retention_months)

SpecOverlap == InitOverlap /\ [][NextOverlap]_vars

----------------------------------------------------------------------------
(* The brand views over larger sales: shares that fall just short of a     *)
(* threshold of market_position                                            *)

\* units sold of each Snacks brand, every product priced 1
ShareQuantities == {250, 750, 1250, 2501, 3001, 3501}

InitShares ==
    /\ now = StartNow
    /\ \E q3 \in ShareQuantities, q4 \in ShareQuantities, q5 \in ShareQuantities :
           /\ sales_interactions = BrandFacts(q3, q4, q5)
           /\ transaction_items = BrandItemsSold(q3, q4, q5)
    /\ unit_price = BrandPrices
    /\ user_store_access = {}
    /\ audit_log = <<>>
    /\ last_call = NoCall
    /\ fn_owner = "db_admin"
    /\ anomalies = {}
    /\ mv = [v \in ViewNames |->
                ViewQuery(v, sales_interactions, transaction_items, unit_price, now)]
    /\ tx = [p \in Sessions |-> Idle]
    /\ seen = [view |-> "none", rows |-> {}, refreshing |-> FALSE]

SpecShares == InitShares /\ [][NextBrands]_vars

----------------------------------------------------------------------------
(* Calls of grant_store_access and revoke_store_access by a session.       *)
(* EXECUTE on a function belongs to PUBLIC unless it is revoked, and the    *)
(* migrations revoke nothing (GRANT EXECUTE ... TO db_admin adds to it);    *)
(* the body runs as the function's owner, so nothing in it reads the role  *)
(* of the session: the caller is known to it by app.user_id only.          *)

GrantCallBy(role, uid, p_user_id, p_store_id, p_access_level, p_expires_at) ==
    grant_store_access(uid, p_user_id, p_store_id, p_access_level, p_expires_at)
RevokeCallBy(role, uid, p_user_id, p_store_id) ==
    revoke_store_access(uid, p_user_id, p_store_id)

----------------------------------------------------------------------------
(* The access-control specification: a fixed fact table, grants, revokes,  *)
(* the cleanup cron and the clock.                                         *)

AccessFacts ==
    {Txn(1, 1, StartNow - 2, 100, "c1", FALSE, FALSE),
     Txn(2, 2, StartNow - 3, 150, "c2", TRUE, FALSE),
     Txn(3, 1, StartNow - 45 * 24, 200, "c1", FALSE, TRUE),
     Txn(4, 2, StartNow - 100 * 24, 50, "c2", FALSE, FALSE)}

InitAccess ==
    /\ now = StartNow
    /\ sales_interactions = AccessFacts
    /\ transaction_items = {}
    /\ unit_price = <<>>
    /\ user_store_access = {}
    /\ audit_log = <<>>
    /\ last_call = NoCall
    /\ fn_owner \in Owners
    /\ anomalies = {}
    /\ mv = <<>>
    /\ tx = <<>>
    /\ seen = <<>>

NextAccess ==
    \/ Tick
    \/ \E uid \in AppUserIds, u \in Users, s \in Stores,
          lvl \in AccessLevels, exp \in Expiries :
          grant_store_access(uid, u, s, lvl, exp)
    \/ \E uid \in AppUserIds, u \in Users, s \in Stores :
          revoke_store_access(uid, u, s)
    \/ cleanup_expired_access

SpecAccess == InitAccess /\ [][NextAccess]_vars


----------------------------------------------------------------------------
(* Claims on the access layer *)

InBusinessHours(t) == HourOf(t) >= BusinessOpen /\ HourOf(t) <= BusinessClose

\* what store_manager uid can read of store s: some sales row, the stores row,
\* the device_master rows
ManagerReadsStore(usa, uid, s, t) ==
    \/ \E row \in sales_interactions :
          row.store_id = s /\ CanSelectSale("store_manager", uid, usa, row, t)
    \/ CanSelectStore("store_manager", uid, usa, s)
    \/ CanSelectDevice("store_manager", uid, usa, s)

\* C5: a store_manager reads a sales_interactions row only if the row's store
\* was granted to the caller's user id, at every time of day.
C5_ManagerReadsOnlyGrantedStores ==
    \A uid \in Users : \A row \in sales_interactions :
        CanSelectSale("store_manager", uid, user_store_access, row, now)
            => \E r \in user_store_access :
                   r.user_id = uid /\ r.store_id = row.store_id

\* C6: outside business hours data_analyst and store_manager read no
\* sales_interactions row, and the business-hours policy never adds a row to
\* what the role's own policy allows.
C6_NoReadOutsideBusinessHours ==
    /\ ~ InBusinessHours(now) =>
          \A role \in {"data_analyst", "store_manager"} : \A uid \in Users :
             \A row \in sales_interactions :
                ~ CanSelectSale(role, uid, user_store_access, row, now)
    /\ \A uid \in Users : \A row \in sales_interactions :
          /\ CanSelectSale("data_analyst", uid, user_store_access, row, now)
                => sales_interactions_analyst_read(row, now)
          /\ CanSelectSale("store_manager", uid, user_store_access, row, now)
                => sales_interactions_store_manager(user_store_access, uid, row, now)

\* C7: after revoke_store_access(u, s) has returned, and until the next call
\* returns, u as store manager reads nothing of store s.
C7_RevokedCannotRead ==
    last_call.op = "revoke_store_access" =>
        ~ ManagerReadsStore(user_store_access, last_call.user_id, last_call.store_id, now)

\* C8: a grant whose expiry was already past when it was made gives no read
\* access: the user reads of that store what they would read without the row.
ExpiredWhenGranted(r) == r.expires_at # NoExpiry /\ r.expires_at < r.granted_at

C8_PastExpiryGrantsNothing ==
    \A r \in user_store_access :
        ExpiredWhenGranted(r) =>
            (ManagerReadsStore(user_store_access, r.user_id, r.store_id, now)
               <=> ManagerReadsStore(user_store_access \ {r}, r.user_id, r.store_id, now))

AccessKey(r) == <<r.user_id, r.store_id>>
GrantSteps(log) == {i \in DOMAIN log : log[i].action = "GRANT_ACCESS"}

\* C9: every step keeps at most one row per (user, store); no step removes a
\* row; a returning revoke changes nothing but is_active of the rows of its
\* (user, store), which it clears; and a grant that repeats the latest grant's
\* (user, store, access level, expiry) leaves that row with the same access
\* level and expiry, active, and every other row as it was.
C9_Step ==
    /\ \A r1, r2 \in user_store_access' : AccessKey(r1) = AccessKey(r2) => r1 = r2
    /\ \A r \in user_store_access : \E q \in user_store_access' : AccessKey(q) = AccessKey(r)
    /\ (audit_log' # audit_log /\ last_call'.op = "revoke_store_access") =>
          /\ Cardinality(user_store_access') = Cardinality(user_store_access)
          /\ \A r \in user_store_access :
                IF AccessKey(r) = <<last_call'.user_id, last_call'.store_id>>
                THEN [r EXCEPT !.is_active = FALSE] \in user_store_access'
                ELSE r \in user_store_access'
    /\ (audit_log' # audit_log /\ last_call'.op = "grant_store_access"
          /\ last_call = last_call') =>
          \A r \in user_store_access : \A q \in user_store_access' :
             (AccessKey(r) = AccessKey(q)
                /\ AccessKey(q) = <<last_call'.user_id, last_call'.store_id>>
                /\ q.access_level = r.access_level /\ q.expires_at = r.expires_at)
             => /\ q.is_active = TRUE
                /\ Cardinality(user_store_access') = Cardinality(user_store_access)
                /\ user_store_access' \ {q} = user_store_access \ {r}

----------------------------------------------------------------------------
(* Claims about the refresh of the views                                   *)

ReaderNeverBlocked == \A v \in ViewNames : ~ Blocked(ReadLockMode, v, "reader")

\* the committed contents of a view change only when a transaction that
\* refreshed it commits, and then to the complete result that transaction built
SwapsWholeResults ==
    \A v \in ViewNames :
        mv'[v] # mv[v] =>
            \E p \in Sessions :
                /\ Holds(p, v) /\ tx'[p] = Idle
                /\ tx[p].pc = Len(ViewsOf(ProcedureOf(p))) + 1
                /\ mv'[v] = tx[p].pending[v]

\* what a refresh builds is the whole result of the view's query
BuildsWholeResult ==
    \A p \in Sessions, v \in ViewNames :
        (v \in tx'[p].refreshed /\ v \notin tx[p].refreshed) =>
            tx'[p].pending[v] =
                ViewQuery(v, sales_interactions, transaction_items, unit_price, now)

\* a read returns the committed contents, which a refresh in flight leaves alone
ReadsCommitted ==
    /\ seen' # seen => seen'.rows = mv[seen'.view]
    /\ \A p \in Sessions, v \in ViewNames : (Holds(p, v) /\ tx'[p].pc # 0) => mv'[v] = mv[v]

\* C1: while a view is being refreshed by refresh_analytics or
\* refresh_all_analytics, a concurrent reader of the view is never blocked
\* and sees the complete pre-refresh contents until the complete new
\* contents replace them in one step; it never sees a partially rebuilt view.
C1_ReadersSeeWholeSnapshots ==
    /\ []ReaderNeverBlocked
    /\ [][SwapsWholeResults /\ BuildsWholeResult /\ ReadsCommitted]_vars

\* a reader has read a view during its refresh and got the old contents
\* while the refreshing transaction holds different new contents
C1_Witness ==
    /\ seen.refreshing
    /\ \E p \in Sessions :
           /\ Holds(p, seen.view)
           /\ seen.rows = mv[seen.view]
           /\ tx[p].pending[seen.view] # mv[seen.view]

RefreshFailed(p) ==
    /\ tx[p].pc \in DOMAIN ViewsOf(ProcedureOf(p))
    /\ tx'[p] = Idle
FailedView(p) == ViewsOf(ProcedureOf(p))[tx[p].pc]
ViewsOfRun(p) == {ViewsOf(ProcedureOf(p))[i] : i \in DOMAIN ViewsOf(ProcedureOf(p))}

\* C2: when the refresh of one view fails within a run, the views refreshed
\* before it keep their new contents and the independent views after it are
\* still refreshed and published.
C2_FailureIsIsolated ==
    [][\A p \in Sessions :
          RefreshFailed(p) =>
              /\ \A v \in tx[p].refreshed : mv'[v] = tx[p].pending[v]
              /\ \A v \in (ViewsOfRun(p) \cap UniqueIndexed) \ (tx[p].refreshed \cup {FailedView(p)}) :
                     mv'[v] = ViewQuery(v, sales_interactions, transaction_items, unit_price, now)
      ]_vars

----------------------------------------------------------------------------
(* Claims about anomaly detection                                          *)

IsDetectionRun ==
    Cardinality(DetectionRuns(audit_log')) > Cardinality(DetectionRuns(audit_log))
Active(rows) == {a \in rows : a.status = "active" /\ a.type \in DetectedTypes}
InsertedByStep == {a \in anomalies' : a.id \notin {b.id : b \in anomalies}}

Flagged(r) ==
    \E a \in anomalies :
        /\ a.type = "SUSPICIOUS_TRANSACTION" /\ a.status = "active"
        /\ a.subject = r.interaction_id
FlaggedAtLeastMedium(r) ==
    \E a \in anomalies :
        /\ a.type = "SUSPICIOUS_TRANSACTION" /\ a.status = "active"
        /\ a.subject = r.interaction_id /\ a.severity \in {"medium", "high"}

Trailing == InWindow(sales_interactions, 30, now)
Recent == InWindow(sales_interactions, 7, now)
\* n values of sum S and spread n * Q - S * S = V have the integer mean m
\* and the integer standard deviation sd
HasIntegerStats(n, S, V, m, sd) ==
    n >= 2 /\ S = n * m /\ V = sd * sd * n * (n - 1)
\* a - 1 >= mean + 3 * stddev, one hundredth being the unit of the amounts
AtLeastOneAbove(a, n, S, V) ==
    /\ n >= 2
    /\ n * (a - 1) - S >= 0
    /\ (n * (a - 1) - S) * (n * (a - 1) - S) * (n - 1) >= 9 * n * V
\* a <= mean + 3 * stddev
NotAbove(a, n, S, V) ==
    /\ n >= 2
    /\ (n * a - S <= 0 \/ (n * a - S) * (n * a - S) * (n - 1) <= 9 * n * V)

FlaggedIffStrictlyAbove(n, S, V) ==
    \A r \in Recent :
        /\ \A sd \in 0..S :
               HasIntegerStats(n, S, V, S \div n, sd) =>
                   (Flagged(r) <=> r.total_amount > (S \div n) + 3 * sd)
        /\ NotAbove(r.total_amount, n, S, V) => ~ Flagged(r)
        /\ ~ NotAbove(r.total_amount, n, S, V) => Flagged(r)
        /\ AtLeastOneAbove(r.total_amount, n, S, V) => FlaggedAtLeastMedium(r)

\* C10: right after a detection run, a transaction of the last 7 days is
\* flagged SUSPICIOUS_TRANSACTION iff its amount is strictly greater than
\* mean + 3 x stddev of the amounts of the last 30 days: where mean and
\* stddev are integers m and sd, it is flagged iff amount > m + 3 * sd, so
\* not at the threshold itself; an amount at or below the threshold is never
\* flagged; an amount a hundredth or more above it is flagged with severity
\* medium or high.
C10_FlaggedIffStrictlyAbove ==
    last_call.op = "detect_sales_anomalies" =>
        FlaggedIffStrictlyAbove(Cardinality(Trailing), Revenue(Trailing), Spread(Trailing))

AtThresholdUnflagged(n, S, V) ==
    \E r \in Recent : \E sd \in 1..S :
        /\ HasIntegerStats(n, S, V, S \div n, sd)
        /\ r.total_amount = (S \div n) + 3 * sd
        /\ ~ Flagged(r)

\* a run has left unflagged a transaction whose amount is exactly
\* mean + 3 x stddev, with a nonzero stddev
C10_Witness ==
    /\ last_call.op = "detect_sales_anomalies"
    /\ AtThresholdUnflagged(Cardinality(Trailing), Revenue(Trailing), Spread(Trailing))

\* a run has flagged a transaction a hundredth or more above the threshold
C10_AboveIsFlagged ==
    /\ last_call.op = "detect_sales_anomalies"
    /\ \E r \in Recent :
           /\ AtLeastOneAbove(r.total_amount, Cardinality(Trailing), Revenue(Trailing),
                              Spread(Trailing))
           /\ FlaggedAtLeastMedium(r)

----------------------------------------------------------------------------
(* Claims about the fact store                                             *)

\* the transactions a row of daily_sales aggregates
SalesOfDay(row) ==
    {r \in InWindow(sales_interactions, 90, now) :
        /\ DateOf(r) = row.sale_date /\ r.store_id = row.store_id
        /\ TxnHour(r) = row.peak_hour}

\* C4: in every state reached by loads and price changes, the revenue the
\* daily_sales aggregation reads for a group of transactions is the sum,
\* over their line items, of quantity times the product's current unit price.
C4_TotalsFollowLineItems ==
    \A row \in daily_sales(sales_interactions, now) :
        row.daily_revenue =
            SetSum({<<r.interaction_id,
                      LineItemTotal(transaction_items, unit_price, r.interaction_id)>>
                    : r \in SalesOfDay(row)})

----------------------------------------------------------------------------
(* Claims about the customer segments                                      *)

MeetsVIP(row) ==
    /\ row.total_spent >= 10000 /\ row.transaction_count >= 10
    /\ row.last_transaction_date >= (CURRENT_DATE(now) - 30) * 24
MeetsLoyal(row) ==
    /\ row.total_spent >= 5000 /\ row.transaction_count >= 5
    /\ row.last_transaction_date >= (CURRENT_DATE(now) - 60) * 24
MeetsActive(row) == row.last_transaction_date >= (CURRENT_DATE(now) - 30) * 24

\* C11: the combined segment is the first match in the order VIP, Loyal,
\* Active, At Risk: a customer meeting both the VIP and the Loyal criteria
\* is VIP, and every customer read from customer_segments has exactly one
\* row, with one of the four segments.
C11_FirstMatchWins ==
    seen.view = "customer_segments" =>
        /\ \A row \in seen.rows :
               /\ row.customer_segment \in {"VIP", "Loyal", "Active", "At Risk"}
               /\ (MeetsVIP(row) /\ MeetsLoyal(row)) => row.customer_segment = "VIP"
               /\ (~ MeetsVIP(row) /\ MeetsLoyal(row)) => row.customer_segment = "Loyal"
               /\ (~ MeetsVIP(row) /\ ~ MeetsLoyal(row) /\ MeetsActive(row))
                      => row.customer_segment = "Active"
               /\ (~ MeetsVIP(row) /\ ~ MeetsLoyal(row) /\ ~ MeetsActive(row))
                      => row.customer_segment = "At Risk"
        /\ \A a, b \in seen.rows : a.customer_id = b.customer_id => a = b

\* a customer meeting both the VIP and the Loyal criteria has been read as VIP
C11_Witness ==
    /\ seen.view = "customer_segments"
    /\ \E row \in seen.rows :
           MeetsVIP(row) /\ MeetsLoyal(row) /\ row.customer_segment = "VIP"

----------------------------------------------------------------------------
(* Claims about the brand competition view                                 *)

SeenBrands == IF seen.view = "brand_competition_dashboard" THEN seen.rows ELSE {}
\* the revenue of the category of a row, summed from the rows read
SeenCategoryRevenue(row) ==
    SetSum({<<r.brand_name, r.revenue>> :
               r \in {x \in SeenBrands : x.brand_category = row.brand_category}})

PositionByShare(row, total) ==
    /\ row.market_position = "Market Leader" <=> 100 * row.revenue >= 25 * total
    /\ row.market_position = "Strong Player" <=>
           (100 * row.revenue >= 15 * total /\ 100 * row.revenue < 25 * total)
    /\ row.market_position = "Challenger" <=>
           (100 * row.revenue >= 5 * total /\ 100 * row.revenue < 15 * total)
    /\ row.market_position = "Niche Player" <=> 100 * row.revenue < 5 * total

\* C12: in the brand competition view a brand is Market Leader when its
\* share of the category revenue is at least 25%, Strong Player when at
\* least 15%, Challenger when at least 5%, Niche Player otherwise; a share
\* of exactly 25%, 15% or 5% gets the higher label.
C12_PositionByInclusiveBounds ==
    \A row \in SeenBrands : PositionByShare(row, SeenCategoryRevenue(row))

\* brands with exactly 25% and exactly 5% of their category have been read
\* as Market Leader and Challenger
C12_Witness ==
    \E a, b \in SeenBrands :
        /\ 100 * a.revenue = 25 * SeenCategoryRevenue(a) /\ a.market_position = "Market Leader"
        /\ 100 * b.revenue = 5 * SeenCategoryRevenue(b) /\ b.market_position = "Challenger"

\* a brand with exactly 15% of its category has been read as Strong Player
C12_FifteenPercent ==
    \E a \in SeenBrands :
        100 * a.revenue = 15 * SeenCategoryRevenue(a) /\ a.market_position = "Strong Player"

SeenCategory(c) == {r \in SeenBrands : r.brand_category = c}
\* the sum of the rounded shares of a category, in hundredths of a percent
SeenShareSum(c) ==
    SetSum({<<r.brand_name, r.category_market_share_percent>> : r \in SeenCategory(c)})
Distance(x, y) == IF x >= y THEN x - y ELSE y - x

\* C13: for every category with positive total revenue, the
\* category_market_share_percent values of its brands sum to 100, within
\* the rounding error of the terms (half a hundredth for each brand).
C13_SharesSumToHundred ==
    \A row \in SeenBrands :
        SeenCategoryRevenue(row) > 0 =>
            2 * Distance(SeenShareSum(row.brand_category), 10000)
                <= Cardinality(SeenCategory(row.brand_category))

\* a category of three brands has been read whose rounded shares sum to
\* 100.01 or 99.99
C13_Witness ==
    \E row \in SeenBrands :
        /\ Cardinality(SeenCategory(row.brand_category)) = 3
        /\ SeenCategoryRevenue(row) > 0
        /\ Distance(SeenShareSum(row.brand_category), 10000) = 1

\* C14: when the total revenue of a region or of a category is zero,
\* computing the views raises no division-by-zero error and the market
\* share of that region or category is 0, not NULL.
C14_ZeroRevenueYieldsZeroShare ==
    /\ ~ QueryRaises("brand_competition_dashboard", sales_interactions, transaction_items,
                     unit_price, now)
    /\ \A row \in regional_performance(sales_interactions, transaction_items, unit_price, now) :
           row.total_revenue = 0 => row.tbwa_market_share_percent = 0

----------------------------------------------------------------------------
(* Claims about the daily sales rollup                                     *)

SeenDaily == IF seen.view = "daily_sales" THEN seen.rows ELSE {}
\* the transactions of the last 90 days of a store on a date, in an hour
InHour(d, s, h) ==
    {r \in sales_interactions :
        /\ r.transaction_date >= (CURRENT_DATE(now) - 90) * 24
        /\ r.transaction_date \div 24 = d /\ r.store_id = s /\ r.transaction_date % 24 = h}
OnDate(d, s) == UNION {InHour(d, s, h) : h \in 0..23}
Totals(rows) == SetSum({<<r.interaction_id, r.total_amount>> : r \in rows})
RollupDates == {r.transaction_date \div 24 : r \in sales_interactions}

\* C15: for every (date, store, hour) the rollup has one row exactly when
\* the store has a transaction of the last 90 days in that hour; its
\* transaction count is their number and its revenue the sum of their
\* totals, so the revenues of a (date, store) add up to the sum of the
\* totals of its transactions.
C15_RollupMatchesTransactions ==
    seen.view = "daily_sales" =>
        \A d \in RollupDates, s \in Stores :
            /\ \A h \in 0..23 :
                   LET rows == {x \in SeenDaily : x.sale_date = d /\ x.store_id = s
                                                     /\ x.peak_hour = h}
                   IN  /\ Cardinality(rows) = IF InHour(d, s, h) = {} THEN 0 ELSE 1
                       /\ \A x \in rows :
                              /\ x.transaction_count = Cardinality(InHour(d, s, h))
                              /\ x.daily_revenue = Totals(InHour(d, s, h))
            /\ SetSum({<<x.peak_hour, x.daily_revenue>> :
                          x \in {y \in SeenDaily : y.sale_date = d /\ y.store_id = s}})
                   = Totals(OnDate(d, s))

\* the rollup read has, for one store and date, hour 9 with count 2 and
\* revenue 250 and hour 14 with count 1 and revenue 200
C15_Witness ==
    \E a, b \in SeenDaily :
        /\ a.sale_date = b.sale_date /\ a.store_id = b.store_id
        /\ a.peak_hour = 9 /\ a.transaction_count = 2 /\ a.daily_revenue = 250
        /\ b.peak_hour = 14 /\ b.transaction_count = 1 /\ b.daily_revenue = 200

----------------------------------------------------------------------------
(* Claims about repeated refreshes *)

\* the latest call that returned is a refresh that committed, and the last
\* row of the audit log is its COMPLETE row: nothing was loaded and no
\* price was changed since
RefreshedLast ==
    /\ last_call = RunOutcome("refresh_analytics", NULL)
    /\ Len(audit_log) > 0
    /\ audit_log[Len(audit_log)] =
           AuditRow("analytics_refresh", "COMPLETE", audit_log[Len(audit_log)].timestamp)
RefreshedOn == CURRENT_DATE(audit_log[Len(audit_log)].timestamp)
RefreshCommits ==
    /\ Len(audit_log') = Len(audit_log) + 2
    /\ last_call' = RunOutcome("refresh_analytics", NULL)

C16_SameDateStep ==
    (RefreshedLast /\ RefreshCommits /\ RefreshedOn = CURRENT_DATE(now)) => mv' = mv
C16_AnyDateStep == (RefreshedLast /\ RefreshCommits) => mv' = mv
----------------------------------------------------------------------------
(* Claims about the scheduled jobs *)

\* the anomalies the jobs found on start and the alert security-audit
\* inserts at the first instant: all are older than the detection run of 08:00
TrackedIds == {a.id : a \in EarlierAnomalies} \cup {<<JobsStart, "SECURITY_ALERT", 0>>}
HasStatus(id, status) == \E a \in anomalies : a.id = id /\ a.status = status

\* the liveness form of C17: under the scheduled jobs every anomaly that
\* is active, of any type, is eventually resolved
ActiveLeadsToResolved ==
    \A id \in TrackedIds : HasStatus(id, "active") ~> HasStatus(id, "resolved")

\* a detection run has completed after the anomaly was created
Superseded(a) ==
    \E i \in DetectionRuns(audit_log) : audit_log[i].timestamp > a.created_at
\* a cleanup has completed after the retention window of the anomaly
CleanedUp(a) ==
    \E i \in DOMAIN audit_log :
        /\ audit_log[i].action = "PURGE_COMPLETE"
        /\ a.created_at < MonthsAgo(3, audit_log[i].timestamp)

\* C17: no anomaly, of any type, stays active: once a later detection run
\* and the cleanup after its retention window have both completed, the
\* anomaly is resolved.
C17_NoneActiveAfterRunAndCleanup ==
    \A a \in anomalies : Superseded(a) /\ CleanedUp(a) => a.status # "active"

----------------------------------------------------------------------------
(* Claims about a detection run that fails *)

DetectionRaises ==
    /\ last_call' # last_call
    /\ \E step \in DOMAIN DetectSteps :
           last_call' = RunOutcome("detect_sales_anomalies", DetectSteps[step])
FailureIsLogged ==
    /\ Len(audit_log') > Len(audit_log)
    /\ audit_log'[Len(audit_log')].timestamp = now
FailureChangesNothing == anomalies' = anomalies /\ mv' = mv

\* C18: a detect_sales_anomalies run that fails at any step records the
\* failure in the log and leaves the anomalies table and every derived
\* view as they were.
C18_FailureLoggedStateStands ==
    [][DetectionRaises => FailureIsLogged /\ FailureChangesNothing]_vars

\* the part of C18 about the tables: a run that fails changes no anomaly
\* and no derived view
C18_FailedRunChangesNothing == [][DetectionRaises => FailureChangesNothing]_vars

----------------------------------------------------------------------------
(* Claims about the audit log *)

\* the step is a call of purge_old_data: it ends with the PURGE_COMPLETE row
PurgeStep ==
    /\ last_call'.op = "purge_old_data"
    /\ audit_log' # audit_log
    /\ audit_log'[Len(audit_log')] = AuditRow("data_cleanup", "PURGE_COMPLETE", now)
\* the rows of the audit log that the step may not remove
MustStay ==
    LET Stays(row) == ~ (PurgeStep /\ row.timestamp < MonthsAgo(6, now))
    IN  SelectSeq(audit_log, Stays)

\* C19: the audit log is append-only: a step leaves every entry in place
\* and unchanged, except that purge_old_data removes the entries older
\* than 6 months.
C19_AuditLogAppendOnly ==
    [][/\ Len(audit_log') >= Len(MustStay)
       /\ SubSeq(audit_log', 1, Len(MustStay)) = MustStay]_vars

----------------------------------------------------------------------------
(* Claims about the refresh schedule *)

\* the contents of view v are what its query returns now
Fresh(v) == mv[v] = ViewQuery(v, sales_interactions, transaction_items, unit_price, now)

\* the liveness form of C20: whenever the contents of one of the seven
\* views are out of date, the schedule alone eventually brings them up to date
StaleLeadsToFresh == \A v \in ViewNames : (~ Fresh(v)) ~> Fresh(v)

\* the scheduled job has run: its COMPLETE row is appended
ScheduledRefreshCommits ==
    /\ RefreshDue
    /\ Len(audit_log') = Len(audit_log) + 2
    /\ audit_log'[Len(audit_log')] = AuditRow("analytics_refresh", "COMPLETE", now)

\* C20: every materialized derived view is recomputed by a scheduled job:
\* when the scheduled refresh has run, each of the seven views holds what
\* its query returns.
C20_ScheduleRecomputesEveryView ==
    [][ScheduledRefreshCommits => \A v \in ViewNames : Fresh(v)']_vars

\* the part of C20 that the schedule does provide: the three views of
\* refresh_analytics are brought up to date again and again
C20_ScheduledViewsAreRefreshed ==
    \A i \in DOMAIN ViewsOf("refresh_analytics") :
        (~ Fresh(ViewsOf("refresh_analytics")[i])) ~> Fresh(ViewsOf("refresh_analytics")[i])

----------------------------------------------------------------------------
(* Claims about the retention purge *)

\* the step is a call purge_old_data(n) that returned
PurgeReturns(n) == PurgeStep /\ last_call' = Call("purge_old_data", NULL, n)
\* midnight of (current date - n months), a month being 30 days
CutoffOf(n) == ((now \div 24) - 30 * n) * 24
Removed == sales_interactions \ sales_interactions'

\* C21: purge_old_data(n) removes exactly the transactions dated before
\* (current date - n months) and their line items: no remaining line item
\* refers to a removed transaction, and no transaction or line item dated
\* on or after the cutoff is removed.
C21_PurgeRemovesExactlyTheOld ==
    [][\A n \in RetentionMonths : PurgeReturns(n) =>
          /\ sales_interactions' \subseteq sales_interactions
          /\ transaction_items' \subseteq transaction_items
          /\ \A r \in sales_interactions :
                 r \in Removed <=> r.transaction_date < CutoffOf(n)
          /\ \A i \in transaction_items :
                 i \notin transaction_items'
                     <=> \E r \in Removed : r.interaction_id = i.interaction_id
      ]_vars

\* a purge has removed a transaction with its line items (the trigger
\* logged the DELETE) and has kept a transaction dated within a day after
\* the cutoff, with its line item
C21_Witness ==
    /\ last_call.op = "purge_old_data"
    /\ \E i \in DOMAIN audit_log :
           audit_log[i].table_name = "sales_interactions" /\ audit_log[i].action = "DELETE"
    /\ Cardinality(transaction_items) < Cardinality(PurgeItems)
    /\ \E r \in sales_interactions :
           /\ r.transaction_date < ((now \div 24) - 30 * last_call.store_id) * 24 + 24
           /\ \E i \in transaction_items : i.interaction_id = r.interaction_id

----------------------------------------------------------------------------
(* Claims about the creation of daily_sales *)

\* the migrations have run their statement for view v
Ran(v) == \E i \in DOMAIN Views : Views[i] = v /\ i < NextStatement
DailyKey(row) == <<row.sale_date, row.store_id, row.day_of_week, row.peak_hour>>

\* C15 (the view as the migration creates it): once the CREATE statement
\* of daily_sales has run, every (date, store, hour) with a transaction in
\* the 90-day window has a row of daily_sales whose count is the number
\* of those transactions and whose revenue is the sum of their totals.
C15_CreatedRollupMatchesTransactions ==
    Ran("daily_sales") =>
        \A r \in InWindow(sales_interactions, 90, now) :
            LET g == {q \in InWindow(sales_interactions, 90, now) :
                          /\ DateOf(q) = DateOf(r)
                          /\ q.store_id = r.store_id
                          /\ TxnHour(q) = TxnHour(r)}
            IN  \E row \in mv["daily_sales"] \ NoRelation :
                    /\ row.sale_date = DateOf(r)
                    /\ row.store_id = r.store_id
                    /\ row.peak_hour = TxnHour(r)
                    /\ row.transaction_count = Cardinality(g)
                    /\ row.daily_revenue = Revenue(g)

\* C22: daily_sales is grouped by exactly (calendar date, store,
\* day-of-week, hour-of-day): once its CREATE statement has run the view
\* exists, its GROUP BY names these four columns (with the store's region
\* and name), and no two of its rows share (sale_date, store_id,
\* day_of_week, peak_hour).
C22_DailySalesGroupedByItsKey ==
    Ran("daily_sales") =>
        /\ {"sale_date", "store_id", "day_of_week", "peak_hour"}
               \subseteq GroupedColumns(daily_sales_select, daily_sales_group_by)
        /\ GroupedColumns(daily_sales_select, daily_sales_group_by)
               \cap daily_sales_aggregates = {}
        /\ mv["daily_sales"] # NoRelation
        /\ \A a, b \in mv["daily_sales"] : DailyKey(a) = DailyKey(b) => a = b

----------------------------------------------------------------------------
(* Claims about regional_performance *)

\* the influence and substitution rates are percentages
RegionRatesWithinHundred ==
    \A row \in mv["regional_performance"] :
        /\ row.influence_rate_percent \in 0..10000
        /\ row.substitution_rate_percent \in 0..10000

\* C23: in regional performance each in-window transaction of a region is
\* counted once, however many line items it has: total_transactions is the
\* number of the region's transactions, total_revenue the sum of their
\* totals, and the influence and substitution rates are the flagged
\* transactions over the transaction count x 100, between 0 and 100
\* (rates in hundredths of a percent).
C23_RegionCountsEachTransactionOnce ==
    Fresh("regional_performance") =>
        \A row \in mv["regional_performance"] :
            LET rows == {r \in InWindow(sales_interactions, 90, now) :
                             store_region[r.store_id] = row.region}
            IN  /\ row.total_transactions = Cardinality(rows)
                /\ row.total_revenue = Revenue(rows)
                /\ row.influence_rate_percent
                       = RoundPercent(CountIf(rows, Influenced), Cardinality(rows))
                /\ row.substitution_rate_percent
                       = RoundPercent(CountIf(rows, Substituted), Cardinality(rows))
                /\ row.influence_rate_percent \in 0..10000
                /\ row.substitution_rate_percent \in 0..10000

----------------------------------------------------------------------------
(* Claims about the log records of a refresh *)

\* the call of session p returns, with or without an error
RunEnds(p) == tx[p].pc # 0 /\ tx'[p].pc = 0
Appended(log_before, log_after) ==
    {log_after[i] : i \in DOMAIN log_after \ DOMAIN log_before}

\* C24: every run of refresh_analytics leaves a durable log record: when
\* the call returns after completing, the audit log has gained its START
\* and COMPLETE records, and when it returns with an error the audit log
\* has gained a record with action ERROR.
C24_EveryRefreshRunIsLogged ==
    [][RunEnds("cron") =>
          IF last_call'.failed_view = NULL
          THEN {r.action : r \in Appended(audit_log, audit_log')} = {"START", "COMPLETE"}
          ELSE \E r \in Appended(audit_log, audit_log') :
                   r.table_name = "analytics_refresh" /\ r.action = "ERROR"]_vars

----------------------------------------------------------------------------
(* Claims about overlapping refreshes *)

\* the REFRESH that session p runs next, "none" when it has none left
NextView(p) ==
    IF tx[p].pc \in DOMAIN ViewsOf(ProcedureOf(p))
    THEN ViewsOf(ProcedureOf(p))[tx[p].pc] ELSE "none"

----------------------------------------------------------------------------
(* Claims about the purge and the refreshes *)

\* a call of a refresh procedure has started and has not returned
RefreshActive == \E p \in Sessions : tx[p].pc # 0

\* C26: the retention purge never runs while a refresh is in progress: no
\* step of purge_old_data is taken while a call of refresh_analytics or
\* refresh_all_analytics has started and not yet returned.
C26_PurgeNeverDuringRefresh == [][PurgeStep => ~ RefreshActive]_vars

\* the same for a purge that removes a transaction inside the 90-day
\* window of the views being refreshed
C26_PurgeNeverTakesWhatARefreshReads ==
    [][(PurgeStep /\ RefreshActive) =>
          InWindow(sales_interactions, 90, now) \subseteq sales_interactions']_vars

----------------------------------------------------------------------------
(* Claims about refresh_all_analytics *)

\* C27: a manual CALL refresh_all_analytics() on a database whose seven
\* views exist runs through all of them: no REFRESH ... CONCURRENTLY of the
\* call fails, so the call reaches its success notice.
C27_RefreshAllReachesSuccess ==
    last_call.op = "refresh_all_analytics" => last_call.failed_view = NULL

----------------------------------------------------------------------------
(* Claims about the security-audit job *)

\* the step inserts a SECURITY_ALERT anomaly
AlertAdded == \E a \in anomalies' \ anomalies : a.type = "SECURITY_ALERT"

\* C28: the security-audit job inserts a SECURITY_ALERT anomaly only on a
\* run where at least one address of failed_access_attempts has more than
\* 10 failed attempts; a run with no such address adds no anomaly row.
C28_AlertOnlyOnSuspiciousAddress ==
    [][AlertAdded => SuspiciousIps(audit_log, now) >= 1]_vars

----------------------------------------------------------------------------
(* Claims about the label and the displayed share *)

\* C29: in every row read from brand_competition_dashboard the label
\* agrees with the displayed share (in hundredths of a percent): 25.00 or
\* more is a Market Leader, 15.00 or more at least a Strong Player, 5.00
\* or more at least a Challenger.
C29_LabelAgreesWithDisplayedShare ==
    seen.view = "brand_competition_dashboard" =>
        \A row \in seen.rows :
            /\ row.category_market_share_percent >= 2500
                   => row.market_position = "Market Leader"
            /\ row.category_market_share_percent >= 1500
                   => row.market_position \in {"Market Leader", "Strong Player"}
            /\ row.category_market_share_percent >= 500
                   => row.market_position \in {"Market Leader", "Strong Player", "Challenger"}

----------------------------------------------------------------------------
(* Claims about who may grant and revoke *)

\* uid holds an active admin-level grant on store s
HoldsAdminGrant(usa, uid, s) ==
    \E r \in usa : /\ r.user_id = uid /\ r.store_id = s
                   /\ r.access_level = "admin" /\ r.is_active = TRUE

\* C30: grant_store_access and revoke_store_access called by someone who is
\* not the database administrator and holds no active admin-level grant on
\* the store raise and leave user_store_access and the audit log
\* unchanged: no step is a call of either function that returned true for
\* such a caller.
C30_UnprivilegedCallIsRejected ==
    [][\A role \in Roles \ {"db_admin"}, uid \in Users, u \in Users, s \in Stores :
          (\/ \E lvl \in AccessLevels, exp \in Expiries : GrantCallBy(role, uid, u, s, lvl, exp)
           \/ RevokeCallBy(role, uid, u, s))
              => HoldsAdminGrant(user_store_access, uid, s)]_vars

\* the same where the functions are owned by a role other than db_admin
UnprivilegedCallIsRejectedUnlessOwnedByDbAdmin ==
    [][fn_owner # "db_admin" =>
         \A role \in Roles \ {"db_admin"}, uid \in Users, u \in Users, s \in Stores :
            (\/ \E lvl \in AccessLevels, exp \in Expiries : GrantCallBy(role, uid, u, s, lvl, exp)
             \/ RevokeCallBy(role, uid, u, s))
                => HoldsAdminGrant(user_store_access, uid, s)]_vars

====
